---------------------------- MODULE Spec2Model ----------------------------
(***************************************************************************)
(* Model of the volatility-adaptive event backtest of stock_python_tw:     *)
(*   raspberry_pi/dynamic_threshold.py   threshold calculation             *)
(*   raspberry_pi/strategy_stats.py      labelers, aggregation, synthesis  *)
(*   raspberry_pi/screen_top_stocks.py   screening recommendations         *)
(*                                                                         *)
(* Floating-point values are modelled as exact rationals <<num, den>> with *)
(* den > 0, or NaN (the empty tuple).  Comparisons with NaN are false, as  *)
(* in Python.  Rounding of IEEE doubles is not modelled.                   *)
(***************************************************************************)
EXTENDS Integers, Sequences, FiniteSets, TLC

VARIABLES
    \* ---- dynamic_threshold.get_dynamic_threshold: one call and the one before
    calib,      \* the four calibration arguments of the call
    vol_pct,    \* the volatility argument of the last call
    th_out,     \* the pair returned by the last call (<<>> before any call)
    th_prev,    \* <<vol, th>> of the call before the last (<<>> when none)
    \* ---- strategy_stats: one lagged instrument in one backtest routine
    routine,    \* "by_days" (_fetch_and_backtest_by_days) or "hold_days"
    hold_days,  \* holding horizon: 3 in by_days, the argument in hold_days
    us_e,       \* leading series at the aligned dates: [us_ret, vol_20d]
    tw,         \* lagged series at the aligned dates: [Open, High, Close]
    common,     \* the aligned (intersected, sorted) date list
    i,          \* the loop index (0-based as in the source)
    pc,         \* "loop" while labelling, "done" once the statistics are stored
    crash_list, surge_list, flat_list,   \* the outcome lists of the instrument
    emitted,    \* history: every outcome with its entry index and label
    results,    \* results[name] of the instrument (<<>> until stored)
    \* ---- the closure stats(lst), called twice on one multiset of outcomes
    agg_in,     \* the outcome list of the first call
    agg_in2,    \* the list of the second call: the same outcomes, reordered
    agg_out,    \* (n, win rate, mean return) of the first call (<<>> before)
    agg_out2,   \* the same of the second call (<<>> before)
    \* ---- the recommendation synthesis
    sy_pc,      \* "fetched" -> "screened" -> "recommended", or "stats" -> "combined"
    stock_stats,    \* per stock in TOP_50_STOCKS order: its crash / surge statistics
    screen_results, \* the list returned by run_screening / run_screening_10d
    rec_fn,     \* the recommendation function called on screen_results
    min_ret,    \* the minimum mean return it applied
    crash_buy, surge_buy,   \* the two lists it returned
    stats_3m, stats_6m,     \* the two runs given to get_combined_recommendation
    combined,   \* its result <<crash_3m, surge_3m, crash_intersection,
                \* surge_intersection>> (<<>> before the call)
    \* ---- _build_integrated_recommendations (the other arguments are
    \* stats_3m, combined, screen_results, crash_buy and surge_buy)
    top50_results_10d,  \* the list returned by run_screening_10d
    crash_top50_10d, surge_top50_10d,   \* its two recommendation lists
    integrated, \* <<short_crash, short_surge, long_crash, long_surge>>
    \* ---- strategy_stats._fetch_and_backtest_by_days: the batch over ALL_STOCKS
    batch_pc,   \* "loop", then "returned" or "raised" (an exception escaped)
    batch_us,   \* the leading series us_e, <<>> when its download is unusable
    all_stocks, \* per instrument of ALL_STOCKS: what its download gives
    stock_k,    \* position in ALL_STOCKS of the instrument of this iteration
    batch_results,  \* the dict results, as the sequence of its items
    \* ---- daily_us_tw_email.get_us_report
    rp_pc,      \* "ready" before a call, "done" after it
    us_report,  \* <<report>>, or <<>> for None
    \* ---- one call of a function on its own
    call_pc,    \* "ready" before the call, "returned" or "raised" after it
    call_args,  \* the arguments of the call
    call_ret    \* <<value>> once returned (<<>> before, and when it raised)

thVars == <<calib, vol_pct, th_out, th_prev>>
btVars == <<routine, hold_days, us_e, tw, common, i, pc,
            crash_list, surge_list, flat_list, emitted, results>>

agVars == <<agg_in, agg_in2, agg_out, agg_out2>>

syVars == <<sy_pc, stock_stats, screen_results, rec_fn, min_ret,
            crash_buy, surge_buy, stats_3m, stats_6m, combined>>

igVars == <<top50_results_10d, crash_top50_10d, surge_top50_10d, integrated>>

baVars == <<batch_pc, batch_us, all_stocks, stock_k, batch_results>>

rpVars == <<rp_pc, us_report>>

clVars == <<call_pc, call_args, call_ret>>

vars == <<thVars, btVars, agVars, syVars, igVars, baVars, rpVars, clVars>>

----------------------------------------------------------------------------
(* Floats: exact rationals in lowest terms, or NaN.                         *)

NaN == <<>>
IsNaN(x) == x = NaN
RECURSIVE GCD(_, _)
GCD(a, b) == IF b = 0 THEN a ELSE GCD(b, a % b)
Abs(n) == IF n < 0 THEN -n ELSE n
\* the rational n / d (d > 0) in lowest terms
Q(n, d) == LET g == GCD(Abs(n), d) IN <<n \div g, d \div g>>
Zero == Q(0, 1)

RLt(a, b) == a[1] * b[2] < b[1] * a[2]
RLe(a, b) == a[1] * b[2] <= b[1] * a[2]
REq(a, b) == a[1] * b[2] = b[1] * a[2]
\* arithmetic propagates NaN, as IEEE floats do
RNeg(a) == IF IsNaN(a) THEN NaN ELSE Q(-a[1], a[2])
RAdd(a, b) == IF IsNaN(a) \/ IsNaN(b) THEN NaN ELSE LET g == GCD(a[2], b[2]) IN Q(a[1] * (b[2] \div g) + b[1] * (a[2] \div g), (a[2] \div g) * b[2])
RSub(a, b) == RAdd(a, RNeg(b))
RMul(a, b) == IF IsNaN(a) \/ IsNaN(b) THEN NaN ELSE Q(a[1] * b[1], a[2] * b[2])
\* a / b for b # 0 (the denominator of the result is kept positive)
RDiv(a, b) ==
    IF IsNaN(a) \/ IsNaN(b) THEN NaN
    ELSE LET g1 == GCD(Abs(a[1]), Abs(b[1]))
             g2 == GCD(a[2], b[2])
             n == (a[1] \div g1) * (b[2] \div g2)
             d == (a[2] \div g2) * (b[1] \div g1)
         IN IF a[1] = 0 THEN Zero ELSE IF d > 0 THEN Q(n, d) ELSE Q(-n, -d)
RAbs(a) == IF IsNaN(a) THEN NaN ELSE IF a[1] < 0 THEN RNeg(a) ELSE a

\* Python float comparisons: false as soon as one side is NaN
FLt(a, b) == ~IsNaN(a) /\ ~IsNaN(b) /\ RLt(a, b)
FLe(a, b) == ~IsNaN(a) /\ ~IsNaN(b) /\ RLe(a, b)
FGt(a, b) == FLt(b, a)
FGe(a, b) == FLe(b, a)
\* equality of two floats as values (NaN only equals NaN here: used by the
\* properties, not by the code)
SameFloat(a, b) == IF IsNaN(a) \/ IsNaN(b) THEN IsNaN(a) /\ IsNaN(b) ELSE REq(a, b)

----------------------------------------------------------------------------
(* dynamic_threshold.py                                                    *)

\* the fallback magnitude 1.0 of "return -1.0, 1.0"
FALLBACK == Q(1, 1)

\* module constants of strategy_stats.py / screen_top_stocks.py
BASE_LOW == Q(7, 10)
BASE_HIGH == Q(18, 10)
VOL_LOW == Q(6, 10)
VOL_HIGH == Q(14, 10)

DefaultCalib ==
    [base_low |-> BASE_LOW, base_high |-> BASE_HIGH,
     vol_low |-> VOL_LOW, vol_high |-> VOL_HIGH]

\* mutant of Interpolate: the slope divides by vol_high instead of the span
Interpolate_WrongSpan(v, c) ==
    RAdd(c.base_low,
         RDiv(RMul(RSub(c.base_high, c.base_low), RSub(v, c.vol_low)),
              c.vol_high))

\* line 47: base_low + (base_high - base_low) * (vol_pct - vol_low) / (vol_high - vol_low)
Interpolate(v, c) ==
    RAdd(c.base_low,
         RDiv(RMul(RSub(c.base_high, c.base_low), RSub(v, c.vol_low)),
              RSub(c.vol_high, c.vol_low)))

\* mutant of Magnitude: the clamp at vol_high is missing
Magnitude_NoUpperClamp(v, c) ==
    IF FLe(v, c.vol_low) THEN c.base_low ELSE Interpolate(v, c)

\* the magnitude t of lines 42-47 (vol_pct defined and > 0)
Magnitude(v, c) ==
    IF FLe(v, c.vol_low) THEN c.base_low
    ELSE IF FGe(v, c.vol_high) THEN c.base_high
    ELSE Interpolate(v, c)

\* mutant of get_dynamic_threshold: the guard tests vol_pct < 0, so 0 is interpolated
get_dynamic_threshold_StrictGuard(v, c) ==
    IF IsNaN(v) \/ FLt(v, Zero)
    THEN <<RNeg(FALLBACK), FALLBACK>>
    ELSE LET t == Magnitude(v, c) IN <<RNeg(t), t>>

\* get_dynamic_threshold(vol_pct, base_low, base_high, vol_low, vol_high)
\* returns <<crash_threshold, surge_threshold>>
get_dynamic_threshold(v, c) ==
    IF IsNaN(v) \/ FLe(v, Zero)
    THEN <<RNeg(FALLBACK), FALLBACK>>
    ELSE LET t == Magnitude(v, c) IN <<RNeg(t), t>>

----------------------------------------------------------------------------
(* Inputs of the threshold calls.                                          *)

MaxVolK == 20

\* volatility inputs: NaN and -MaxVolK/10 .. MaxVolK/10 percent in steps of 0.1
VolInputs == {NaN} \cup {Q(k, 10) : k \in -MaxVolK..MaxVolK}

\* calibrations: the program's, other ordered ones, and ill-ordered ones
Calibs ==
    { DefaultCalib,
      [base_low |-> Q(12, 10), base_high |-> Q(20, 10), vol_low |-> Q(5, 10), vol_high |-> Q(8, 10)],
      [base_low |-> Q(2, 10), base_high |-> Q(9, 10), vol_low |-> Q(-3, 10), vol_high |-> Q(4, 10)],
      [base_low |-> Q(-5, 10), base_high |-> Q(5, 10), vol_low |-> Q(6, 10), vol_high |-> Q(14, 10)],
      [base_low |-> Q(5, 10), base_high |-> Q(15, 10), vol_low |-> Q(-9, 10), vol_high |-> Q(-2, 10)],
      [base_low |-> Q(18, 10), base_high |-> Q(7, 10), vol_low |-> Q(6, 10), vol_high |-> Q(14, 10)],
      [base_low |-> Q(7, 10), base_high |-> Q(18, 10), vol_low |-> Q(10, 10), vol_high |-> Q(10, 10)],
      [base_low |-> Q(7, 10), base_high |-> Q(18, 10), vol_low |-> Q(14, 10), vol_high |-> Q(6, 10)] }

\* the ordering the contract requires of a calibration
ValidCalib(c) == RLt(c.base_low, c.base_high) /\ RLt(c.vol_low, c.vol_high)

\* the threshold calls at rest (specifications of the other components)
IdleThreshold ==
    /\ calib = DefaultCalib
    /\ vol_pct = NaN
    /\ th_out = <<>>
    /\ th_prev = <<>>

\* the backtest loop at rest (specifications of the other components)
IdleBacktest ==
    /\ routine = "by_days" /\ hold_days = 3
    /\ us_e = <<>> /\ tw = <<>> /\ common = <<>>
    /\ i = 1 /\ pc = "idle"
    /\ crash_list = <<>> /\ surge_list = <<>> /\ flat_list = <<>>
    /\ emitted = <<>> /\ results = <<>>

\* the aggregator at rest (specifications of the other components)
IdleAggregator ==
    /\ agg_in = <<>> /\ agg_in2 = <<>>
    /\ agg_out = <<>> /\ agg_out2 = <<>>

\* the synthesis at rest (specifications of the other components)
IdleSynthesis ==
    /\ sy_pc = "idle"
    /\ stock_stats = <<>> /\ screen_results = <<>>
    /\ rec_fn = "none" /\ min_ret = Zero
    /\ crash_buy = <<>> /\ surge_buy = <<>>
    /\ stats_3m = <<>> /\ stats_6m = <<>> /\ combined = <<>>

\* the integrated recommendation block at rest
IdleIntegrated ==
    /\ top50_results_10d = <<>>
    /\ crash_top50_10d = <<>> /\ surge_top50_10d = <<>>
    /\ integrated = <<>>

\* the batch backtest at rest
IdleBatch ==
    /\ batch_pc = "idle" /\ batch_us = <<>> /\ all_stocks = <<>>
    /\ stock_k = 1 /\ batch_results = <<>>

\* the daily report at rest
IdleReport == rp_pc = "idle" /\ us_report = <<>>

\* no separate call in progress
IdleCall == call_pc = "idle" /\ call_args = <<>> /\ call_ret = <<>>

InitThreshold ==
    /\ calib \in Calibs
    /\ vol_pct = NaN
    /\ th_out = <<>>
    /\ th_prev = <<>>
    /\ IdleBacktest /\ IdleAggregator /\ IdleSynthesis
    /\ IdleIntegrated /\ IdleBatch /\ IdleReport /\ IdleCall

\* one call get_dynamic_threshold(v, **calib); the previous call is remembered
CallThreshold ==
    \E v \in VolInputs :
        /\ vol_pct' = v
        /\ th_out' = get_dynamic_threshold(v, calib)
        /\ th_prev' = IF th_out = <<>> THEN <<>> ELSE <<vol_pct, th_out>>
        /\ UNCHANGED <<calib, btVars, agVars, syVars, igVars, baVars, rpVars, clVars>>

NextThreshold == CallThreshold

SpecThreshold == InitThreshold /\ [][NextThreshold]_vars

----------------------------------------------------------------------------
(* Properties of get_dynamic_threshold (SpecThreshold).                    *)

Called == th_out # <<>>
PrevVol == th_prev[1]
PrevTh == th_prev[2]
Positive(v) == ~IsNaN(v) /\ RLt(Zero, v)
\* the returned pair is (-m, +m)
IsPair(th, m) == REq(th[1], RNeg(m)) /\ REq(th[2], m)
\* t * (vol_high - vol_low) = base_low * (vol_high - vol_low)
\*                            + (base_high - base_low) * (v - vol_low)
OnTheLine(t, v, c) ==
    REq(RMul(t, RSub(c.vol_high, c.vol_low)),
        RAdd(RMul(c.base_low, RSub(c.vol_high, c.vol_low)),
             RMul(RSub(c.base_high, c.base_low), RSub(v, c.vol_low))))
StrictlyInside(v, c) == RLt(c.vol_low, v) /\ RLt(v, c.vol_high)

\* the three cases of the threshold contract for the input v, restricted to
\* the inputs satisfying Dom(v), and the monotonicity between two
\* interpolated calls
ThreeCases(v, th, c, dom) ==
    /\ (dom /\ RLe(v, c.vol_low)) => IsPair(th, c.base_low)
    /\ (dom /\ RLe(c.vol_high, v)) => IsPair(th, c.base_high)
    /\ (dom /\ StrictlyInside(v, c)) =>
          /\ REq(th[1], RNeg(th[2]))
          /\ OnTheLine(th[2], v, c)
          /\ RLt(c.base_low, th[2]) /\ RLt(th[2], c.base_high)

InterpolationMonotone(dom1, dom2) ==
    (/\ th_prev # <<>>
     /\ ~IsNaN(PrevVol) /\ dom1 /\ dom2
     /\ StrictlyInside(PrevVol, calib) /\ StrictlyInside(vol_pct, calib)
     /\ RLe(PrevVol, vol_pct))
        => RLe(PrevTh[2], th_out[2])

\* C1 as stated: for EVERY defined input v <= vol_low the pair is
\* (-base_low, +base_low), for every v >= vol_high it is (-base_high,
\* +base_high), and in between it is the interpolation, strictly between the
\* bases and non-decreasing.  (Fails: v <= 0 returns the fallback pair.)
C1_AsStated ==
    (Called /\ ValidCalib(calib) /\ ~IsNaN(vol_pct)) =>
        /\ ThreeCases(vol_pct, th_out, calib, TRUE)
        /\ InterpolationMonotone(TRUE, TRUE)

\* C1 amended: the three cases hold for every defined input v > 0 (ordered
\* calibration): 0 < v <= vol_low gives (-base_low, +base_low), v > 0 with
\* v >= vol_high gives (-base_high, +base_high), and v > 0 strictly between
\* gives the interpolated magnitude, strictly between base_low and base_high
\* and non-decreasing in v.
C1_PositiveVolThreeCases ==
    (Called /\ ValidCalib(calib) /\ ~IsNaN(vol_pct)) =>
        /\ ThreeCases(vol_pct, th_out, calib, Positive(vol_pct))
        /\ InterpolationMonotone(Positive(PrevVol), Positive(vol_pct))

\* C1 witness: two interpolated calls under the program's calibration, the
\* second with the larger volatility and the strictly larger magnitude
C1_Witness ==
    /\ Called /\ th_prev # <<>> /\ calib = DefaultCalib
    /\ Positive(PrevVol) /\ Positive(vol_pct)
    /\ StrictlyInside(PrevVol, calib) /\ StrictlyInside(vol_pct, calib)
    /\ RLt(PrevVol, vol_pct)
    /\ RLt(PrevTh[2], th_out[2])

\* C2: whenever the volatility input is NaN or <= 0 the returned pair is
\* exactly (-1.0, +1.0), for every calibration (ordered or not).
C2_FallbackPair ==
    (Called /\ (IsNaN(vol_pct) \/ RLe(vol_pct, Zero))) =>
        (REq(th_out[1], Q(-1, 1)) /\ REq(th_out[2], Q(1, 1)))

\* C2 witness: a call with volatility exactly 0 under a calibration whose
\* base_low is not 1.0, after a call with NaN
C2_Witness ==
    /\ Called /\ th_prev # <<>>
    /\ IsNaN(PrevVol) /\ ~IsNaN(vol_pct) /\ REq(vol_pct, Zero)
    /\ ~REq(calib.base_low, Q(1, 1))
    /\ REq(th_out[2], Q(1, 1))

\* the magnitude is non-decreasing between the previous and the last call
\* whenever both inputs satisfy the domain predicates
MonotoneOver(dom1, dom2) ==
    (/\ th_prev # <<>>
     /\ ~IsNaN(PrevVol) /\ ~IsNaN(vol_pct) /\ dom1 /\ dom2
     /\ RLe(PrevVol, vol_pct))
        => RLe(PrevTh[2], th_out[2])

\* C3 as stated: for every input (defined, zero, negative or NaN) and every
\* ordered calibration, crash = -surge, crash <= 0 <= surge, the magnitude
\* lies in [base_low, base_high] and is non-decreasing over the whole input
\* range.  (Fails: the fallback magnitude 1.0 for v <= 0.)
C3_AsStated ==
    (Called /\ ValidCalib(calib)) =>
        /\ REq(th_out[1], RNeg(th_out[2]))
        /\ RLe(th_out[1], Zero) /\ RLe(Zero, th_out[2])
        /\ RLe(calib.base_low, th_out[2]) /\ RLe(th_out[2], calib.base_high)
        /\ MonotoneOver(TRUE, TRUE)

\* C3 amended: for every ordered calibration with base_low >= 0 and every
\* input, crash = -surge and crash <= 0 <= surge; over the defined inputs
\* v > 0 the magnitude lies in [base_low, base_high] and is non-decreasing;
\* for NaN or v <= 0 the magnitude is the fixed 1.0.
C3_PairInvariant ==
    (Called /\ ValidCalib(calib) /\ RLe(Zero, calib.base_low)) =>
        /\ REq(th_out[1], RNeg(th_out[2]))
        /\ RLe(th_out[1], Zero) /\ RLe(Zero, th_out[2])
        /\ Positive(vol_pct) =>
              (RLe(calib.base_low, th_out[2]) /\ RLe(th_out[2], calib.base_high))
        /\ ~Positive(vol_pct) => REq(th_out[2], Q(1, 1))
        /\ MonotoneOver(Positive(PrevVol), Positive(vol_pct))

\* C3 witness: under an ordered calibration with base_low >= 0, a call below
\* vol_low followed by a call above vol_high: both clamps are reached
C3_Witness ==
    /\ Called /\ th_prev # <<>>
    /\ ValidCalib(calib) /\ RLe(Zero, calib.base_low)
    /\ Positive(PrevVol) /\ RLt(PrevVol, calib.vol_low)
    /\ Positive(vol_pct) /\ RLt(calib.vol_high, vol_pct)
    /\ REq(PrevTh[2], calib.base_low) /\ REq(th_out[2], calib.base_high)

----------------------------------------------------------------------------
(* strategy_stats.py: the labelling loop and the aggregation of one lagged *)
(* instrument, in _fetch_and_backtest_by_days (3-day) and in               *)
(* _fetch_and_backtest_hold_days (general horizon).                        *)

\* seq[k] with the source's 0-based index
At(seq, k) == seq[k + 1]

\* mutant of NeedForward: no margin beyond the holding window
NeedForward_NoMargin(h) == h

\* mutant of NeedForward: the loop runs two indices too far
NeedForward_Short(h) == h - 2

\* need_forward = hold_days + 1
NeedForward(h) == h + 1

\* the exclusive end of range(1, ...) of the labelling loop
LoopEnd ==
    IF routine = "by_days"
    THEN Len(common) - 2
    ELSE Len(common) - NeedForward(hold_days)

\* the dates of the exit window of index k: d1, d2, d3 in by_days,
\* hold_indices = [common[i + j] for j in range(hold_days)] in hold_days
HoldIndices(k) ==
    IF routine = "by_days"
    THEN <<At(common, k), At(common, k + 1), At(common, k + 2)>>
    ELSE [j \in 1..hold_days |-> At(common, k + (j - 1))]

\* Python's max over a non-empty sequence: the first item is kept unless a
\* later one compares greater
RECURSIVE PyMaxFrom(_, _, _)
PyMaxFrom(seq, k, best) ==
    IF k > Len(seq) THEN best
    ELSE PyMaxFrom(seq, k + 1, IF FGt(seq[k], best) THEN seq[k] ELSE best)
PyMax(seq) == PyMaxFrom(seq, 2, seq[1])

\* high_3d / high_hold: the maximum High over the exit window
HighHold(k) ==
    LET hold_indices == HoldIndices(k)
    IN PyMax([j \in 1..Len(hold_indices) |-> tw[hold_indices[j]].High])

\* close_last: the Close of the last date of the exit window
CloseLast(k) ==
    LET hold_indices == HoldIndices(k)
    IN tw[hold_indices[Len(hold_indices)]].Close

\* mutant of ReturnPct: the ratio is inverted
ReturnPct_Inverted(close, buy) ==
    RMul(RSub(RDiv(buy, close), Q(1, 1)), Q(100, 1))

\* ret = (close / buy - 1) * 100
ReturnPct(close, buy) ==
    RMul(RSub(RDiv(close, buy), Q(1, 1)), Q(100, 1))

\* mutant of Won: a maximum equal to the entry price counts as a win
Won_OrEqual(high, buy) == FGe(high, buy)

\* win = high > buy
Won(high, buy) == FGt(high, buy)

\* us_pct = us_ret * 100
UsPct(us_ret) == RMul(us_ret, Q(100, 1))

\* mutant of Classify: the bounds themselves count as crash / surge
Classify_Inclusive(us_pct, th) ==
    IF FLe(us_pct, th[1]) THEN "crash"
    ELSE IF FGe(us_pct, th[2]) THEN "surge"
    ELSE "flat"

\* if us_pct < th_c: crash; elif us_pct > th_s: surge; else: flat
Classify(us_pct, th) ==
    IF FLt(us_pct, th[1]) THEN "crash"
    ELSE IF FGt(us_pct, th[2]) THEN "surge"
    ELSE "flat"

\* sum of a sequence of floats, left to right
RECURSIVE SumSeq(_, _)
SumSeq(seq, k) == IF k > Len(seq) THEN Zero ELSE RAdd(seq[k], SumSeq(seq, k + 1))

\* number of outcomes of lst[1..k] that won: sum(x["win"] for x in lst)
RECURSIVE Wins(_, _)
Wins(lst, k) == IF k = 0 THEN 0 ELSE Wins(lst, k - 1) + (IF lst[k].win THEN 1 ELSE 0)

\* mutant of stats: the mean return is taken from the last outcome only
stats_LastReturn(lst) ==
    IF lst = <<>> THEN [n |-> 0, wr |-> Zero, ret |-> Zero]
    ELSE LET n == Len(lst)
             w == Wins(lst, n)
         IN [n |-> n, wr |-> RMul(Q(w, n), Q(100, 1)), ret |-> lst[n].ret]

\* def stats(lst): (n, w / n * 100, np.mean(ret)), (0, 0, 0) for an empty list
stats(lst) ==
    IF lst = <<>> THEN [n |-> 0, wr |-> Zero, ret |-> Zero]
    ELSE LET n == Len(lst)
             w == Wins(lst, n)
             r == RDiv(SumSeq([k \in 1..n |-> lst[k].ret], 1), Q(n, 1))
         IN [n |-> n, wr |-> RMul(Q(w, n), Q(100, 1)), ret |-> r]

----------------------------------------------------------------------------
(* Inputs of the backtest.                                                 *)

MaxN == 5
MaxHold == 2

P(n) == Q(n, 1)
Bar(o, h, c) == [Open |-> P(o), High |-> P(h), Close |-> P(c)]

\* one aligned date: the leading row (us_ret as a fraction, vol_20d in
\* percent) and the lagged bar
DayRows ==
    { \* first leading row: no return, window not full
      [us |-> [us_ret |-> NaN, vol_20d |-> NaN], tw |-> Bar(100, 99, 99)],
      \* -2.0 % with the fallback bounds: crash
      [us |-> [us_ret |-> Q(-2, 100), vol_20d |-> NaN], tw |-> Bar(100, 99, 99)],
      \* -1.0 % with the fallback bounds: exactly the crash bound
      [us |-> [us_ret |-> Q(-1, 100), vol_20d |-> NaN], tw |-> Bar(101, 101, 100)],
      \* +0.8 % with vol 0.6 (bounds -0.7 / +0.7): surge
      [us |-> [us_ret |-> Q(8, 1000), vol_20d |-> Q(6, 10)], tw |-> Bar(98, 100, 98)],
      \* +1.25 % with vol 1.0 (bounds -1.25 / +1.25): exactly the surge bound
      [us |-> [us_ret |-> Q(125, 10000), vol_20d |-> Q(10, 10)], tw |-> Bar(101, 101, 100)] }

InitBacktest ==
    /\ IdleThreshold /\ IdleAggregator /\ IdleSynthesis
    /\ IdleIntegrated /\ IdleBatch /\ IdleReport /\ IdleCall
    /\ \/ routine = "by_days" /\ hold_days = 3
       \/ routine = "hold_days" /\ hold_days \in 1..MaxHold
    /\ \E n \in 0..MaxN :
          /\ common = [d \in 1..n |-> d]
          /\ \E rows \in [1..n -> DayRows] :
                /\ us_e = [d \in 1..n |-> rows[d].us]
                /\ tw = [d \in 1..n |-> rows[d].tw]
    /\ i = 1 /\ pc = "loop"
    /\ crash_list = <<>> /\ surge_list = <<>> /\ flat_list = <<>>
    /\ emitted = <<>> /\ results = <<>>

\* loop body, lines 180-184: the leading return of the prior date is NaN
LabelSkip ==
    /\ pc = "loop" /\ i < LoopEnd
    /\ LET prev_d == At(common, i - 1) IN IsNaN(us_e[prev_d].us_ret)
    /\ i' = i + 1
    /\ UNCHANGED <<routine, hold_days, us_e, tw, common, pc,
                   crash_list, surge_list, flat_list, emitted, results>>
    /\ UNCHANGED <<thVars, agVars, syVars, igVars, baVars, rpVars, clVars>>

\* loop body, lines 180-201: one outcome is computed, labelled and appended
LabelEmit ==
    /\ pc = "loop" /\ i < LoopEnd
    /\ LET prev_d == At(common, i - 1)
           d == At(common, i)
           us_ret == us_e[prev_d].us_ret
           vol == us_e[prev_d].vol_20d
           th == get_dynamic_threshold(vol, DefaultCalib)
           buy == tw[d].Open
           ret == ReturnPct(CloseLast(i), buy)
           win == Won(HighHold(i), buy)
           regime == Classify(UsPct(us_ret), th)
           out == [win |-> win, ret |-> ret]
       IN /\ ~IsNaN(us_ret)
          /\ crash_list' = IF regime = "crash" THEN Append(crash_list, out) ELSE crash_list
          /\ surge_list' = IF regime = "surge" THEN Append(surge_list, out) ELSE surge_list
          /\ flat_list' = IF regime = "flat" THEN Append(flat_list, out) ELSE flat_list
          /\ emitted' = Append(emitted, [i |-> i, regime |-> regime, win |-> win, ret |-> ret])
    /\ i' = i + 1
    /\ UNCHANGED <<routine, hold_days, us_e, tw, common, pc, results>>
    /\ UNCHANGED <<thVars, agVars, syVars, igVars, baVars, rpVars, clVars>>

\* lines 203-219: the three lists are reduced and stored as results[name]
Aggregate ==
    /\ pc = "loop" /\ ~(i < LoopEnd)
    /\ LET c == stats(crash_list)
           s == stats(surge_list)
           f == stats(flat_list)
       IN results' = [crash_n |-> c.n, crash_wr |-> c.wr, crash_ret |-> c.ret,
                      surge_n |-> s.n, surge_wr |-> s.wr, surge_ret |-> s.ret,
                      flat_n |-> f.n, flat_wr |-> f.wr, flat_ret |-> f.ret]
    /\ pc' = "done"
    /\ UNCHANGED <<routine, hold_days, us_e, tw, common, i,
                   crash_list, surge_list, flat_list, emitted>>
    /\ UNCHANGED <<thVars, agVars, syVars, igVars, baVars, rpVars, clVars>>

NextBacktest == LabelSkip \/ LabelEmit \/ Aggregate

SpecBacktest == InitBacktest /\ [][NextBacktest]_vars

----------------------------------------------------------------------------
(* Properties of the labelling loop (SpecBacktest).                        *)

N == Len(common)
Outcomes == {emitted[k] : k \in 1..Len(emitted)}
LeadRow(e) == us_e[At(common, e.i - 1)]
EntryOpen(e) == tw[At(common, e.i)].Open
CountRegime(reg) == Cardinality({k \in 1..Len(emitted) : emitted[k].regime = reg})

C5_OneLabelPerOutcome ==
    /\ \A e \in Outcomes :
          LET r == UsPct(LeadRow(e).us_ret)
              th == get_dynamic_threshold(LeadRow(e).vol_20d, DefaultCalib)
          IN /\ ~IsNaN(LeadRow(e).us_ret)
             /\ e.regime \in {"crash", "surge", "flat"}
             /\ (e.regime = "crash") <=> RLt(r, th[1])
             /\ (e.regime = "surge") <=> RLt(th[2], r)
             /\ (e.regime = "flat") <=> (RLe(th[1], r) /\ RLe(r, th[2]))
    /\ Len(crash_list) = CountRegime("crash")
    /\ Len(surge_list) = CountRegime("surge")
    /\ Len(flat_list) = CountRegime("flat")
    /\ Len(crash_list) + Len(surge_list) + Len(flat_list) = Len(emitted)
    /\ pc = "done" =>
          /\ results.crash_n = CountRegime("crash")
          /\ results.surge_n = CountRegime("surge")
          /\ results.flat_n = CountRegime("flat")
          /\ results.crash_n + results.surge_n + results.flat_n = Len(emitted)

\* C5 witness: a finished run with a crash outcome and with a flat outcome
\* whose leading return equals the crash bound
C5_Witness ==
    /\ pc = "done"
    /\ \E e \in Outcomes : e.regime = "crash"
    /\ \E e \in Outcomes :
          /\ e.regime = "flat"
          /\ REq(UsPct(LeadRow(e).us_ret),
                 get_dynamic_threshold(LeadRow(e).vol_20d, DefaultCalib)[1])

\* C6: an outcome with entry index i has won iff some High of the aligned
\* dates i .. i+h-1 is strictly greater than the Open at date i.
C6_WonIffHighAboveEntry ==
    \A e \in Outcomes :
        e.win <=> \E j \in 0..(hold_days - 1) :
                      RLt(EntryOpen(e), tw[At(common, e.i + j)].High)

\* C6 witness: an outcome whose highest High equals the entry price and
\* which has not won
C6_Witness ==
    \E e \in Outcomes :
        /\ ~e.win
        /\ \E j \in 0..(hold_days - 1) : REq(EntryOpen(e), tw[At(common, e.i + j)].High)

\* C7: return_pct * Open(i) = (Close(i+h-1) - Open(i)) * 100 for every
\* outcome with entry index i.
C7_ReturnFromLastClose ==
    \A e \in Outcomes :
        LET close == tw[At(common, e.i + hold_days - 1)].Close
        IN REq(RMul(e.ret, EntryOpen(e)),
               RMul(RSub(close, EntryOpen(e)), Q(100, 1)))

\* C7 witness: entry 100, Highs 99, 101, 100 and a last Close of 98 in the
\* 3-day routine: won, with return -2.0 %
C7_Witness ==
    \E e \in Outcomes :
        /\ routine = "by_days"
        /\ EntryOpen(e) = P(100)
        /\ tw[At(common, e.i)].High = P(99)
        /\ tw[At(common, e.i + 1)].High = P(101)
        /\ tw[At(common, e.i + 2)].High = P(100)
        /\ tw[At(common, e.i + 2)].Close = P(98)
        /\ e.win /\ e.ret = Q(-2, 1)

----------------------------------------------------------------------------
(* The aggregation alone: stats(lst) of strategy_stats.py lines 203-209 is *)
(* applied to a list of outcomes and then to a reordering of that list.    *)

MaxAggLen == 3

\* outcomes {"win", "ret"}: won with a gain, won with a loss, lost, not won
\* with a gain at the last close
AggOutcomes ==
    { [win |-> TRUE, ret |-> Q(2, 1)], [win |-> TRUE, ret |-> Q(-2, 1)],
      [win |-> FALSE, ret |-> Q(-200, 101)], [win |-> FALSE, ret |-> Q(1, 2)] }

Reorderings(n) == {p \in [1..n -> 1..n] : \A a, b \in 1..n : p[a] = p[b] => a = b}

InitAggregator ==
    /\ IdleThreshold /\ IdleBacktest /\ IdleSynthesis
    /\ IdleIntegrated /\ IdleBatch /\ IdleReport /\ IdleCall
    /\ \E n \in 0..MaxAggLen :
          /\ agg_in \in [1..n -> AggOutcomes]
          /\ \E p \in Reorderings(n) : agg_in2 = [k \in 1..n |-> agg_in[p[k]]]
    /\ agg_out = <<>> /\ agg_out2 = <<>>

\* c_n, c_wr, c_ret = stats(crash_list)
StatsFirst ==
    /\ agg_out = <<>>
    /\ agg_out' = <<stats(agg_in)>>
    /\ UNCHANGED <<agg_in, agg_in2, agg_out2, thVars, btVars, syVars, igVars, baVars, rpVars, clVars>>

\* a later call of stats on the same outcomes in another order
StatsSecond ==
    /\ agg_out # <<>> /\ agg_out2 = <<>>
    /\ agg_out2' = <<stats(agg_in2)>>
    /\ UNCHANGED <<agg_in, agg_in2, agg_out, thVars, btVars, syVars, igVars, baVars, rpVars, clVars>>

NextAggregator == StatsFirst \/ StatsSecond

SpecAggregator == InitAggregator /\ [][NextAggregator]_vars

----------------------------------------------------------------------------
(* Properties of the aggregation (SpecAggregator).                         *)

WinIndices(lst) == {k \in 1..Len(lst) : lst[k].win}
\* the sum of the returns over a set of positions of lst, in no fixed order
RECURSIVE SumOver(_, _)
SumOver(lst, S) ==
    IF S = {} THEN Zero
    ELSE LET k == CHOOSE x \in S : \A y \in S : x >= y
         IN RAdd(lst[k].ret, SumOver(lst, S \ {k}))

----------------------------------------------------------------------------
(* Cross-run recommendation synthesis.                                      *)
(*   screen_top_stocks.py : backtest_single_stock(_10d) (best strategy and  *)
(*       score), run_screening(_10d) (ranking), get_recommendations and     *)
(*       get_top20_recommendations_10d (top 20, floor, tie-break)           *)
(*   strategy_stats.py    : get_combined_recommendation                      *)
(* A per-regime statistic is the record [n, wr, ret] that stats(lst)        *)
(* returns.  The flat-regime statistic and the ticker are carried by the    *)
(* source records but read by none of these functions; they are left out.   *)

RET_DIFF_THRESHOLD == Q(1, 2)
MIN_RET_THRESHOLD == Q(2, 1)
MIN_RET_10D == Q(4, 1)

\* "score": best_wr * 0.4 + best_ret * 10 * 0.6
Score(best_wr, best_ret) ==
    RAdd(RMul(best_wr, Q(4, 10)), RMul(RMul(best_ret, Q(10, 1)), Q(6, 10)))

\* the tail of backtest_single_stock / backtest_single_stock_10d: the best
\* strategy of one instrument, <<>> for None (too few samples), else <<r>>
backtest_single_stock(name, c, s) ==
    LET crash_is_best ==
            IF c.n >= 3 /\ s.n >= 3 THEN FGt(c.ret, s.ret) ELSE c.n >= 3
        best_wr == IF crash_is_best THEN c.wr ELSE s.wr
        best_ret == IF c.n >= 3 /\ s.n >= 3 THEN PyMax(<<c.ret, s.ret>>)
                    ELSE IF c.n >= 3 THEN c.ret ELSE s.ret
    IN IF c.n < 3 /\ s.n < 3 THEN <<>>
       ELSE << [name |-> name,
                crash_n |-> c.n, crash_wr |-> c.wr, crash_ret |-> c.ret,
                surge_n |-> s.n, surge_wr |-> s.wr, surge_ret |-> s.ret,
                best_strategy |-> IF crash_is_best THEN "crash" ELSE "surge",
                best_wr |-> best_wr,
                best_ret |-> best_ret,
                score |-> Score(best_wr, best_ret)] >>

\* results.sort(key=score, reverse=True): stable, descending
RECURSIVE InsertByScore(_, _)
InsertByScore(sorted, r) ==
    IF sorted = <<>> THEN <<r>>
    ELSE IF RLt(Head(sorted).score, r.score) THEN <<r>> \o sorted
    ELSE <<Head(sorted)>> \o InsertByScore(Tail(sorted), r)

RECURSIVE SortByScore(_, _, _)
SortByScore(lst, k, sorted) ==
    IF k > Len(lst) THEN sorted
    ELSE SortByScore(lst, k + 1, InsertByScore(sorted, lst[k]))

\* the loop of run_screening / run_screening_10d: "if r: results.append(r)"
RECURSIVE CollectResults(_, _)
CollectResults(stocks, k) ==
    IF k > Len(stocks) THEN <<>>
    ELSE backtest_single_stock(stocks[k].name, stocks[k].crash, stocks[k].surge)
            \o CollectResults(stocks, k + 1)

run_screening(stocks) == SortByScore(CollectResults(stocks, 1), 1, <<>>)

\* the whole list in place of its first 20 entries
top_20_All(res) == res

\* top_20 = results[:20]
top_20(res) == SubSeq(res, 1, IF Len(res) < 20 THEN Len(res) ELSE 20)

Diff(r) == RAbs(RSub(r.crash_ret, r.surge_ret))

\* the tie test taken with <= in place of <
Recommend_InclusiveTie(r, floor, acc) ==
    LET crash_ok == FGe(r.crash_ret, floor)
        surge_ok == FGe(r.surge_ret, floor)
    IN IF ~crash_ok /\ ~surge_ok THEN acc
       ELSE IF FLe(Diff(r), RET_DIFF_THRESHOLD) /\ crash_ok /\ surge_ok
            THEN <<Append(acc[1], r.name), Append(acc[2], r.name)>>
       ELSE IF r.best_strategy = "crash" /\ crash_ok
            THEN <<Append(acc[1], r.name), acc[2]>>
       ELSE IF surge_ok THEN <<acc[1], Append(acc[2], r.name)>>
       ELSE acc

\* the tie branch taken without looking at crash_ok and surge_ok
Recommend_TieIgnoresFloor(r, floor, acc) ==
    LET crash_ok == FGe(r.crash_ret, floor)
        surge_ok == FGe(r.surge_ret, floor)
    IN IF ~crash_ok /\ ~surge_ok THEN acc
       ELSE IF FLt(Diff(r), RET_DIFF_THRESHOLD)
            THEN <<Append(acc[1], r.name), Append(acc[2], r.name)>>
       ELSE IF r.best_strategy = "crash" /\ crash_ok
            THEN <<Append(acc[1], r.name), acc[2]>>
       ELSE IF surge_ok THEN <<acc[1], Append(acc[2], r.name)>>
       ELSE acc

\* the loop body of get_recommendations and get_top20_recommendations_10d
\* (the same text but for the floor); acc = <<crash_buy, surge_buy>>
Recommend(r, floor, acc) ==
    LET crash_ok == FGe(r.crash_ret, floor)
        surge_ok == FGe(r.surge_ret, floor)
    IN IF ~crash_ok /\ ~surge_ok THEN acc
       ELSE IF FLt(Diff(r), RET_DIFF_THRESHOLD) /\ crash_ok /\ surge_ok
            THEN <<Append(acc[1], r.name), Append(acc[2], r.name)>>
       ELSE IF r.best_strategy = "crash" /\ crash_ok
            THEN <<Append(acc[1], r.name), acc[2]>>
       ELSE IF surge_ok THEN <<acc[1], Append(acc[2], r.name)>>
       ELSE acc

RECURSIVE RecommendLoop(_, _, _, _)
RecommendLoop(top, k, floor, acc) ==
    IF k > Len(top) THEN acc
    ELSE RecommendLoop(top, k + 1, floor, Recommend(top[k], floor, acc))

get_recommendations(res) ==
    RecommendLoop(top_20(res), 1, MIN_RET_THRESHOLD, <<<<>>, <<>>>>)

get_top20_recommendations_10d(res, floor) ==
    RecommendLoop(top_20(res), 1, floor, <<<<>>, <<>>>>)

\* ---- get_combined_recommendation
suggest_crash(s) == FGt(s.crash_ret, s.surge_ret)

\* the tie test taken with <= in place of <
diff_small_Inclusive(s) == FLe(Diff(s), RET_DIFF_THRESHOLD)

diff_small(s) == FLt(Diff(s), RET_DIFF_THRESHOLD)

\* stats[name] of a dict kept as the sequence of its items
Lookup(stats_d, name) ==
    stats_d[CHOOSE k \in 1..Len(stats_d) : stats_d[k].name = name]

Keys(stats_d) == {stats_d[k].name : k \in 1..Len(stats_d)}

\* the names of lst, in order, that are in keep
RECURSIVE NamesIn(_, _, _)
NamesIn(lst, k, keep) ==
    IF k > Len(lst) THEN <<>>
    ELSE (IF lst[k] \in keep THEN <<lst[k]>> ELSE <<>>) \o NamesIn(lst, k + 1, keep)

\* order: the order in which the set common_names is iterated
get_combined_recommendation(s3m, s6m, order) ==
    LET items == [k \in 1..Len(s3m) |-> s3m[k].name]
        in_crash_3m == {n \in Keys(s3m) :
                          diff_small(Lookup(s3m, n)) \/ suggest_crash(Lookup(s3m, n))}
        in_surge_3m == {n \in Keys(s3m) :
                          diff_small(Lookup(s3m, n)) \/ ~suggest_crash(Lookup(s3m, n))}
        close(n) == diff_small(Lookup(s3m, n)) \/ diff_small(Lookup(s6m, n))
        common_names == Keys(s3m) \cap Keys(s6m)
        in_crash_x == {n \in common_names :
                          \/ close(n)
                          \/ suggest_crash(Lookup(s3m, n)) /\ suggest_crash(Lookup(s6m, n))}
        in_surge_x == {n \in common_names :
                          \/ close(n)
                          \/ ~suggest_crash(Lookup(s3m, n)) /\ ~suggest_crash(Lookup(s6m, n))}
    IN << NamesIn(items, 1, in_crash_3m), NamesIn(items, 1, in_surge_3m),
          NamesIn(order, 1, in_crash_x), NamesIn(order, 1, in_surge_x) >>

----------------------------------------------------------------------------
(* Inputs of the synthesis.                                                 *)

MaxFree == 2
MaxFill == 20
MaxNames == 2

Stat(n, wr, ret) == [n |-> n, wr |-> wr, ret |-> ret]

\* crash and surge statistics of one instrument: ties, returns on either
\* side of the floors 2.0 and 4.0, differences of exactly 0.5, regimes with
\* fewer than 3 samples
JointRows ==
    { [crash |-> Stat(3, Q(200, 3), Q(2, 1)),   surge |-> Stat(4, Q(75, 1), Q(23, 10))],
      [crash |-> Stat(3, Q(100, 1), Q(19, 10)), surge |-> Stat(4, Q(75, 1), Q(23, 10))],
      [crash |-> Stat(5, Q(80, 1), Q(4, 1)),    surge |-> Stat(3, Q(100, 1), Q(25, 10))],
      [crash |-> Stat(3, Q(100, 1), Q(25, 10)), surge |-> Stat(5, Q(80, 1), Q(4, 1))],
      [crash |-> Stat(2, Q(100, 1), Q(5, 1)),   surge |-> Stat(3, Q(100, 1), Q(48, 10))],
      [crash |-> Stat(0, Zero, Zero),           surge |-> Stat(0, Zero, Zero)],
      [crash |-> Stat(5, Q(80, 1), Q(4, 1)),    surge |-> Stat(4, Q(75, 1), Q(45, 10))],
      [crash |-> Stat(4, Q(75, 1), Q(45, 10)),  surge |-> Stat(5, Q(80, 1), Q(4, 1))],
      [crash |-> Stat(5, Q(80, 1), Q(4, 1)),    surge |-> Stat(4, Q(75, 1), Q(42, 10))],
      [crash |-> Stat(3, Q(100, 1), Q(1, 1)),   surge |-> Stat(2, Q(100, 1), Q(5, 1))],
      [crash |-> Stat(3, Zero, Q(-1, 1)),       surge |-> Stat(3, Q(100, 3), Q(-1, 2))],
      [crash |-> Stat(3, Q(100, 1), Q(19, 10)), surge |-> Stat(0, Zero, Zero)] }

\* an instrument that outranks every row of JointRows (score 76)
LeaderRow == [crash |-> Stat(5, Q(100, 1), Q(6, 1)), surge |-> Stat(0, Zero, Zero)]

\* the rows of the 3-month and 6-month statistics
CombinedRows ==
    { [crash |-> Stat(3, Q(200, 3), Q(2, 1)),   surge |-> Stat(4, Q(75, 1), Q(23, 10))],
      [crash |-> Stat(5, Q(80, 1), Q(4, 1)),    surge |-> Stat(3, Q(100, 1), Q(25, 10))],
      [crash |-> Stat(3, Q(100, 1), Q(25, 10)), surge |-> Stat(5, Q(80, 1), Q(4, 1))],
      [crash |-> Stat(5, Q(80, 1), Q(4, 1)),    surge |-> Stat(4, Q(75, 1), Q(45, 10))],
      [crash |-> Stat(0, Zero, Zero),           surge |-> Stat(0, Zero, Zero)] }

MinRetInputs == {MIN_RET_10D, Q(25, 10)}

\* results[name] of _fetch_and_backtest_by_days, with its key
StatsItem(name, row) ==
    [name |-> name,
     crash_n |-> row.crash.n, crash_wr |-> row.crash.wr, crash_ret |-> row.crash.ret,
     surge_n |-> row.surge.n, surge_wr |-> row.surge.wr, surge_ret |-> row.surge.ret]

\* the items of a dict filled in the order of TW_STOCKS (ascending names)
RECURSIVE ItemsOf(_, _, _)
ItemsOf(names, rows, k) ==
    IF k > MaxNames THEN <<>>
    ELSE (IF k \in names THEN <<StatsItem(k, rows[k])>> ELSE <<>>)
            \o ItemsOf(names, rows, k + 1)

Orderings(S) ==
    {p \in [1..Cardinality(S) -> S] :
        \A a, b \in 1..Cardinality(S) : p[a] = p[b] => a = b}

InitScreening ==
    /\ sy_pc = "fetched"
    /\ \E f \in 0..MaxFree, fill \in 0..MaxFill :
          \E rows \in [1..f -> JointRows] :
             stock_stats = [k \in 1..(f + fill) |->
                              IF k <= f
                              THEN [name |-> k, crash |-> rows[k].crash,
                                    surge |-> rows[k].surge]
                              ELSE [name |-> k, crash |-> LeaderRow.crash,
                                    surge |-> LeaderRow.surge]]
    /\ screen_results = <<>>
    /\ rec_fn = "none" /\ min_ret = Zero
    /\ crash_buy = <<>> /\ surge_buy = <<>>
    /\ stats_3m = <<>> /\ stats_6m = <<>> /\ combined = <<>>

InitCombined ==
    /\ sy_pc = "stats"
    /\ \E n3, n6 \in SUBSET (1..MaxNames) :
          \E r3 \in [n3 -> CombinedRows], r6 \in [n6 -> CombinedRows] :
             /\ stats_3m = ItemsOf(n3, r3, 1)
             /\ stats_6m = ItemsOf(n6, r6, 1)
    /\ combined = <<>>
    /\ stock_stats = <<>> /\ screen_results = <<>>
    /\ rec_fn = "none" /\ min_ret = Zero
    /\ crash_buy = <<>> /\ surge_buy = <<>>

----------------------------------------------------------------------------
(* daily_us_tw_email._build_integrated_recommendations: the short-horizon   *)
(* and long-horizon lists with their mean returns.  An entry of a list is   *)
(* <<name, r>> for the text "name +r.rr%" (r in hundredths of a percent) or *)
(* <<name>> for a name without a known return.                              *)

\* f"{r_val:+.2f}": the value rounded to 2 decimals, half to even
Round2(q) ==
    LET f == (100 * q[1]) \div q[2]
        rem == 100 * q[1] - f * q[2]
    IN IF 2 * rem > q[2] THEN f + 1
       ELSE IF 2 * rem = q[2] /\ f % 2 = 1 THEN f + 1
       ELSE f

\* ret_3d / ret_10d: name -> (crash_ret, surge_ret); the entries of the
\* second source overwrite those of the first
RetDict(first, second) ==
    [n \in Keys(first) \cup Keys(second) |->
        LET s == IF n \in Keys(second) THEN Lookup(second, n) ELSE Lookup(first, n)
        IN <<s.crash_ret, s.surge_ret>>]

Entry(name, ret_d, col) ==
    IF name \in DOMAIN ret_d THEN <<name, Round2(ret_d[name][col])>> ELSE <<name>>

\* "for name in lst: if name in seen: continue; seen.add(name); append"
RECURSIVE MergeOnce(_, _, _, _, _)
MergeOnce(lst, k, seen, ret_d, col) ==
    IF k > Len(lst) THEN <<>>
    ELSE IF lst[k] \in seen THEN MergeOnce(lst, k + 1, seen, ret_d, col)
    ELSE <<Entry(lst[k], ret_d, col)>>
            \o MergeOnce(lst, k + 1, seen \cup {lst[k]}, ret_d, col)

build_integrated_recommendations(strategy_stats, crash_3m, surge_3m, crash_top50, surge_top50, top50_results, c_top50_10d, s_top50_10d, results_10d) ==
    LET ret_3d == RetDict(strategy_stats, top50_results)
        ret_10d == RetDict(<<>>, results_10d)
    IN << MergeOnce(crash_3m \o crash_top50, 1, {}, ret_3d, 1),
          MergeOnce(surge_3m \o surge_top50, 1, {}, ret_3d, 2),
          [k \in 1..Len(c_top50_10d) |-> Entry(c_top50_10d[k], ret_10d, 1)],
          [k \in 1..Len(s_top50_10d) |-> Entry(s_top50_10d[k], ret_10d, 2)] >>

\* the statistics used for the integrated block
IntegratedRows ==
    { [crash |-> Stat(3, Q(200, 3), Q(2, 1)),   surge |-> Stat(4, Q(75, 1), Q(23, 10))],
      [crash |-> Stat(5, Q(80, 1), Q(4, 1)),    surge |-> Stat(3, Q(100, 1), Q(25, 10))],
      [crash |-> Stat(3, Q(100, 3), Q(13, 3)),  surge |-> Stat(5, Q(80, 1), Q(5, 1))] }

Stocks(rows) ==
    [k \in 1..Len(rows) |-> [name |-> k, crash |-> rows[k].crash, surge |-> rows[k].surge]]

\* the state of build_email_content before the integrated block: the
\* 3-month statistics with their combined lists, the 3-day and the 10-day
\* screening results with their recommendation lists
InitIntegrated ==
    /\ sy_pc = "report"
    /\ \E n3 \in SUBSET (1..MaxNames) :
          \E r3 \in [n3 -> IntegratedRows] :
             /\ stats_3m = ItemsOf(n3, r3, 1)
             /\ stats_6m = stats_3m
             /\ \E order \in Orderings(n3) :
                   combined = get_combined_recommendation(stats_3m, stats_3m, order)
    /\ \E f \in 0..MaxFree : \E rows \in [1..f -> IntegratedRows] :
          /\ stock_stats = Stocks(rows)
          /\ screen_results = run_screening(Stocks(rows))
          /\ crash_buy = get_recommendations(screen_results)[1]
          /\ surge_buy = get_recommendations(screen_results)[2]
    /\ rec_fn = "get_recommendations" /\ min_ret = MIN_RET_THRESHOLD
    /\ \E f \in 0..MaxFree : \E rows \in [1..f -> IntegratedRows] :
          /\ top50_results_10d = run_screening(Stocks(rows))
          /\ crash_top50_10d =
                get_top20_recommendations_10d(top50_results_10d, MIN_RET_10D)[1]
          /\ surge_top50_10d =
                get_top20_recommendations_10d(top50_results_10d, MIN_RET_10D)[2]
    /\ integrated = <<>>

\* table_block_9 = _build_integrated_recommendations(...)
BuildIntegrated ==
    /\ sy_pc = "report"
    /\ integrated' =
          build_integrated_recommendations(stats_3m, combined[1], combined[2],
                                           crash_buy, surge_buy, screen_results,
                                           crash_top50_10d, surge_top50_10d,
                                           top50_results_10d)
    /\ sy_pc' = "integrated"
    /\ UNCHANGED <<stock_stats, screen_results, rec_fn, min_ret, crash_buy,
                   surge_buy, stats_3m, stats_6m, combined>>
    /\ UNCHANGED <<top50_results_10d, crash_top50_10d, surge_top50_10d>>
    /\ UNCHANGED <<thVars, btVars, agVars, baVars, rpVars, clVars>>

InitSynth ==
    /\ IdleThreshold /\ IdleBacktest /\ IdleAggregator
    /\ IdleBatch /\ IdleReport /\ IdleCall
    /\ \/ InitScreening /\ IdleIntegrated
       \/ InitCombined /\ IdleIntegrated
       \/ InitIntegrated

\* results = run_screening()
RunScreening ==
    /\ sy_pc = "fetched"
    /\ screen_results' = run_screening(stock_stats)
    /\ sy_pc' = "screened"
    /\ UNCHANGED <<stock_stats, rec_fn, min_ret, crash_buy, surge_buy,
                   stats_3m, stats_6m, combined>>
    /\ UNCHANGED <<thVars, btVars, agVars, igVars, baVars, rpVars, clVars>>

\* results = run_screening_10d(): the same ranking over the 10-day statistics
RunScreening10d ==
    /\ sy_pc = "fetched"
    /\ screen_results' = run_screening(stock_stats)
    /\ sy_pc' = "screened_10d"
    /\ UNCHANGED <<stock_stats, rec_fn, min_ret, crash_buy, surge_buy,
                   stats_3m, stats_6m, combined>>
    /\ UNCHANGED <<thVars, btVars, agVars, igVars, baVars, rpVars, clVars>>

\* the list kept whole replaced by its first 20 entries (del results[20:])
AfterSlice_Truncated(res) == top_20(res)

\* the argument results after "top_20 = results[:20]" and the loop over
\* top_20: the slice is a new list, results itself is only read
AfterSlice(res) == res

\* crash_buy, surge_buy = get_recommendations(results)
GetRecommendations ==
    /\ sy_pc = "screened"
    /\ LET out == get_recommendations(screen_results)
       IN crash_buy' = out[1] /\ surge_buy' = out[2]
    /\ rec_fn' = "get_recommendations"
    /\ min_ret' = MIN_RET_THRESHOLD
    /\ sy_pc' = "recommended"
    /\ screen_results' = AfterSlice(screen_results)
    /\ UNCHANGED <<stock_stats, stats_3m, stats_6m, combined>>
    /\ UNCHANGED <<thVars, btVars, agVars, igVars, baVars, rpVars, clVars>>

\* crash_buy, surge_buy = get_top20_recommendations_10d(results, min_ret)
GetTop20Recommendations10d ==
    /\ sy_pc = "screened_10d"
    /\ \E m \in MinRetInputs :
          /\ min_ret' = m
          /\ LET out == get_top20_recommendations_10d(screen_results, m)
             IN crash_buy' = out[1] /\ surge_buy' = out[2]
    /\ rec_fn' = "get_top20_recommendations_10d"
    /\ sy_pc' = "recommended"
    /\ screen_results' = AfterSlice(screen_results)
    /\ UNCHANGED <<stock_stats, stats_3m, stats_6m, combined>>
    /\ UNCHANGED <<thVars, btVars, agVars, igVars, baVars, rpVars, clVars>>

\* get_combined_recommendation(stats_3m, stats_6m); the set common_names is
\* iterated in an order the source does not fix
GetCombined ==
    /\ sy_pc = "stats"
    /\ \E order \in Orderings(Keys(stats_3m) \cap Keys(stats_6m)) :
          combined' = get_combined_recommendation(stats_3m, stats_6m, order)
    /\ sy_pc' = "combined"
    /\ UNCHANGED <<stock_stats, screen_results, rec_fn, min_ret, crash_buy,
                   surge_buy, stats_3m, stats_6m>>
    /\ UNCHANGED <<thVars, btVars, agVars, igVars, baVars, rpVars, clVars>>

NextSynth ==
    \/ RunScreening
    \/ RunScreening10d
    \/ GetRecommendations
    \/ GetTop20Recommendations10d
    \/ GetCombined
    \/ BuildIntegrated

SpecSynth == InitSynth /\ [][NextSynth]_vars

----------------------------------------------------------------------------
(* Properties of the synthesis.                                             *)

InList(lst, name) == \E k \in 1..Len(lst) : lst[k] = name

\* the floor of the last recommendation call
FloorUsed == IF rec_fn = "get_recommendations" THEN Q(2, 1) ELSE min_ret

\* both regimes have at least 3 samples and a mean return at the floor or above
BothPass(r, floor) ==
    /\ r.crash_n >= 3 /\ r.surge_n >= 3
    /\ RLe(floor, r.crash_ret) /\ RLe(floor, r.surge_ret)

\* under both lists when the returns differ by less than 0.5, otherwise
\* under the list of the higher mean return and not under the other
BestRegimeListed(r, crash_l, surge_l) ==
    IF RLt(Diff(r), Q(1, 2))
    THEN InList(crash_l, r.name) /\ InList(surge_l, r.name)
    ELSE IF RLt(r.surge_ret, r.crash_ret)
    THEN InList(crash_l, r.name) /\ ~InList(surge_l, r.name)
    ELSE InList(surge_l, r.name) /\ ~InList(crash_l, r.name)

Listed(r) == InList(crash_buy, r.name) \/ InList(surge_buy, r.name)

\* C9 as stated: once the recommendation lists are made, every instrument of
\* the ranked results whose crash and surge statistics both pass the filters
\* is under both lists when its mean returns differ by less than 0.5 and
\* otherwise under exactly the list of the higher mean return; the same for
\* the 3-month lists of get_combined_recommendation.
C9_AsStated ==
    /\ sy_pc = "recommended" =>
          \A k \in 1..Len(screen_results) :
             BothPass(screen_results[k], FloorUsed) =>
                BestRegimeListed(screen_results[k], crash_buy, surge_buy)
    /\ sy_pc = "combined" =>
          \A k \in 1..Len(stats_3m) :
             BestRegimeListed(stats_3m[k], combined[1], combined[2])

\* C9 (amended): the rule of C9 holds for the instruments among the first 20
\* of the ranked results; an instrument ranked after the 20th is under
\* neither list, whatever its statistics.  get_combined_recommendation
\* applies the rule to every instrument of the 3-month statistics.
C9_BestRegimeAmongTop20 ==
    /\ sy_pc = "recommended" =>
          \A k \in 1..Len(screen_results) :
             IF k <= 20
             THEN BothPass(screen_results[k], FloorUsed) =>
                     BestRegimeListed(screen_results[k], crash_buy, surge_buy)
             ELSE ~Listed(screen_results[k])
    /\ sy_pc = "combined" =>
          \A k \in 1..Len(stats_3m) :
             BestRegimeListed(stats_3m[k], combined[1], combined[2])

\* the spec's scenario (crash 2.00, surge 2.30: both lists), an instrument
\* with a difference of exactly 0.5 under one list only, and an instrument
\* that passes both filters ranked 21st
C9_Witness ==
    /\ sy_pc = "recommended" /\ rec_fn = "get_recommendations"
    /\ Len(screen_results) > 20
    /\ BothPass(screen_results[21], FloorUsed)
    /\ \E k \in 1..20 :
          LET r == screen_results[k]
          IN /\ r.crash_ret = Q(2, 1) /\ r.surge_ret = Q(23, 10)
             /\ BothPass(r, FloorUsed)
             /\ InList(crash_buy, r.name) /\ InList(surge_buy, r.name)

\* C10: every instrument that get_recommendations (floor 2.0) or
\* get_top20_recommendations_10d (floor min_ret) places in the crash list
\* has a crash mean return at the floor or above, and every instrument in
\* the surge list has a surge mean return at the floor or above.
C10_FloorOnLists ==
    sy_pc = "recommended" =>
        \A k \in 1..Len(screen_results) :
           LET r == screen_results[k]
           IN /\ InList(crash_buy, r.name) => RLe(FloorUsed, r.crash_ret)
              /\ InList(surge_buy, r.name) => RLe(FloorUsed, r.surge_ret)

\* an instrument with crash mean return 1.9 against the floor 2.0 is under
\* the surge list (2.3) and not under the crash list
C10_Witness ==
    /\ sy_pc = "recommended" /\ rec_fn = "get_recommendations"
    /\ \E k \in 1..Len(screen_results) :
          LET r == screen_results[k]
          IN /\ r.crash_ret = Q(19, 10) /\ r.surge_ret = Q(23, 10)
             /\ InList(surge_buy, r.name) /\ ~InList(crash_buy, r.name)

\* C11: an instrument is under the crash list (surge list) of
\* get_recommendations / get_top20_recommendations_10d only if its crash
\* (surge) statistic has at least 3 samples.
C11_AsStated ==
    sy_pc = "recommended" =>
        \A k \in 1..Len(screen_results) :
           LET r == screen_results[k]
           IN /\ InList(crash_buy, r.name) => r.crash_n >= 3
              /\ InList(surge_buy, r.name) => r.surge_n >= 3

\* the regime statistic passes the minimum-sample filter (3) and the
\* minimum-return filter (the short-horizon floor 2.0)
CrashPasses(s) == s.crash_n >= 3 /\ RLe(MIN_RET_THRESHOLD, s.crash_ret)
SurgePasses(s) == s.surge_n >= 3 /\ RLe(MIN_RET_THRESHOLD, s.surge_ret)

\* C12: the four lists of get_combined_recommendation hold only instruments
\* whose statistic for that regime passes the minimum-sample and the
\* minimum-return filter in the run(s) used; an instrument with zero crash
\* and zero surge samples is in none of the lists.
C12_AsStated ==
    sy_pc = "combined" =>
       /\ \A k \in 1..Len(stats_3m) :
             LET s == stats_3m[k]
             IN /\ InList(combined[1], s.name) => CrashPasses(s)
                /\ InList(combined[2], s.name) => SurgePasses(s)
                /\ InList(combined[3], s.name) =>
                      CrashPasses(s) /\ CrashPasses(Lookup(stats_6m, s.name))
                /\ InList(combined[4], s.name) =>
                      SurgePasses(s) /\ SurgePasses(Lookup(stats_6m, s.name))
                /\ (s.crash_n = 0 /\ s.surge_n = 0) =>
                      \A j \in 1..4 : ~InList(combined[j], s.name)

\* the mean returns of the two regimes differ by less than 0.5
Within(s) == RLt(RAbs(RSub(s.crash_ret, s.surge_ret)), Q(1, 2))

CrashHigher(s) == RLt(s.surge_ret, s.crash_ret)

\* C13: an instrument present in both runs is in both intersection lists
\* when its returns differ by less than 0.5 in either run; otherwise it is in
\* crash_intersection iff both runs have crash_ret > surge_ret, in
\* surge_intersection iff neither run has, and in neither list when the runs
\* disagree.  An instrument missing from either run is in neither list.
C13_Intersection ==
    sy_pc = "combined" =>
       \A n \in Keys(stats_3m) \cup Keys(stats_6m) :
          IF n \in Keys(stats_3m) /\ n \in Keys(stats_6m)
          THEN LET s3 == Lookup(stats_3m, n)
                   s6 == Lookup(stats_6m, n)
               IN IF Within(s3) \/ Within(s6)
                  THEN InList(combined[3], n) /\ InList(combined[4], n)
                  ELSE /\ InList(combined[3], n) <=>
                             (CrashHigher(s3) /\ CrashHigher(s6))
                       /\ InList(combined[4], n) <=>
                             (~CrashHigher(s3) /\ ~CrashHigher(s6))
                       /\ (CrashHigher(s3) # CrashHigher(s6)) =>
                             (~InList(combined[3], n) /\ ~InList(combined[4], n))
          ELSE ~InList(combined[3], n) /\ ~InList(combined[4], n)

\* two instruments in both runs: one whose runs disagree (neither list), one
\* with a tie in the 6-month run only (both lists)
C13_Witness ==
    /\ sy_pc = "combined"
    /\ Len(stats_3m) = 2 /\ Len(stats_6m) = 2
    /\ ~Within(stats_3m[1]) /\ ~Within(stats_6m[1])
    /\ CrashHigher(stats_3m[1]) /\ ~CrashHigher(stats_6m[1])
    /\ ~InList(combined[3], 1) /\ ~InList(combined[4], 1)
    /\ ~Within(stats_3m[2]) /\ Within(stats_6m[2])
    /\ InList(combined[3], 2) /\ InList(combined[4], 2)

\* win_rate * 0.4 + mean_return * 10 * 0.6 of the best regime: the regime
\* with at least 3 samples, and the higher mean return when both have
CompositeScore(r) ==
    LET crash_best == IF r.crash_n >= 3 /\ r.surge_n >= 3
                      THEN RLt(r.surge_ret, r.crash_ret)
                      ELSE r.crash_n >= 3
        wr == IF crash_best THEN r.crash_wr ELSE r.surge_wr
        ret == IF crash_best THEN r.crash_ret ELSE r.surge_ret
    IN RAdd(RMul(wr, Q(2, 5)), RMul(ret, Q(6, 1)))

PassesFloor(r) == RLe(FloorUsed, r.crash_ret) \/ RLe(FloorUsed, r.surge_ret)

\* C14: the screening results are in non-increasing order of the composite
\* score of each instrument's best regime, and an instrument ranked 21st or
\* lower is in neither recommendation list.
C14_RankedTop20 ==
    /\ sy_pc \in {"screened", "screened_10d", "recommended"} =>
          /\ \A k \in 1..Len(screen_results) :
                screen_results[k].score = CompositeScore(screen_results[k])
          /\ \A k \in 1..(Len(screen_results) - 1) :
                RLe(screen_results[k + 1].score, screen_results[k].score)
          /\ {screen_results[k].name : k \in 1..Len(screen_results)}
                = {stock_stats[k].name : k \in
                      {j \in 1..Len(stock_stats) :
                          stock_stats[j].crash.n >= 3 \/ stock_stats[j].surge.n >= 3}}
    /\ sy_pc = "recommended" =>
          \A k \in 21..Len(screen_results) : ~Listed(screen_results[k])

\* the 21st instrument passes the floor and is not listed, while the 20th
\* does not pass it (and scores higher)
C14_Witness ==
    /\ sy_pc = "recommended"
    /\ Len(screen_results) > 20
    /\ PassesFloor(screen_results[21]) /\ ~Listed(screen_results[21])
    /\ ~PassesFloor(screen_results[20]) /\ ~Listed(screen_results[20])
    /\ RLt(screen_results[21].score, screen_results[20].score)
    /\ Len(crash_buy) < 20 /\ Len(surge_buy) < 20

----------------------------------------------------------------------------
(* strategy_stats._fetch_and_backtest_by_days: the batch over ALL_STOCKS.   *)
(* One action per iteration of "for ticker, name in ALL_STOCKS.items()",    *)
(* by what yf.download gives for the instrument.  The source has no         *)
(* try / except around the download, neither here nor in its callers.       *)

MaxBatch == 2
MaxBatchN == 4

\* rows of the leading series: no return yet, and -2.0 % before the
\* volatility window is full
BatchLead ==
    { [us_ret |-> NaN, vol_20d |-> NaN],
      [us_ret |-> Q(-2, 100), vol_20d |-> NaN] }

\* lagged bars: one that rises above the entry price, one that does not
BatchBars == { Bar(100, 103, 102), Bar(100, 100, 98) }

\* the bar of a date whose Close is missing in the download
MissingClose(b) == [b EXCEPT !.Close = NaN]

\* what the download of one instrument gives: an exception, an unusable
\* frame (empty, or without Open / High), or the bars at the n dates it
\* shares with the leading series, the last of them with or without its
\* Close
Downloads ==
    { [kind |-> "raises", tw |-> <<>>], [kind |-> "empty", tw |-> <<>>] }
    \cup { [kind |-> "ok", tw |-> [d \in 1..n |-> b]] :
              n \in 0..MaxBatchN, b \in BatchBars }
    \cup { [kind |-> "ok", tw |-> [d \in 1..n |-> IF d = n THEN MissingClose(b) ELSE b]] :
              n \in 1..MaxBatchN, b \in BatchBars }

\* the labelling loop of lines 179-201 over common = dates 1..Len(t), from
\* index k (0-based) on; acc holds crash_list, surge_list and flat_list
RECURSIVE label_by_days(_, _, _, _)
label_by_days(us, t, k, acc) ==
    IF ~(k < Len(t) - 2) THEN acc
    ELSE LET us_ret == us[k].us_ret
             vol == us[k].vol_20d
             th == get_dynamic_threshold(vol, DefaultCalib)
             buy == t[k + 1].Open
             high_3d == PyMax(<<t[k + 1].High, t[k + 2].High, t[k + 3].High>>)
             ret_3d == ReturnPct(t[k + 3].Close, buy)
             out == [win |-> Won(high_3d, buy), ret |-> ret_3d]
             regime == Classify(UsPct(us_ret), th)
         IN IF IsNaN(us_ret) THEN label_by_days(us, t, k + 1, acc)
            ELSE label_by_days(us, t, k + 1, [acc EXCEPT ![regime] = Append(@, out)])

\* results[name] of lines 203-219 for the instrument at position k
BatchItem(us, t, k) ==
    LET lists == label_by_days(us, t, 1, [crash |-> <<>>, surge |-> <<>>, flat |-> <<>>])
    IN StatsItem(k, [crash |-> stats(lists.crash), surge |-> stats(lists.surge)])

InitBatch ==
    /\ IdleThreshold /\ IdleBacktest /\ IdleAggregator /\ IdleSynthesis
    /\ IdleIntegrated /\ IdleReport /\ IdleCall
    /\ batch_pc = "start"
    /\ batch_us \in {<<>>} \cup [1..MaxBatchN -> BatchLead]
    /\ \E m \in 0..MaxBatch : all_stocks \in [1..m -> Downloads]
    /\ stock_k = 1
    /\ batch_results = <<>>

\* lines 158-166: "if us.empty or len(us) < 30: return {}", else results = {}
DownloadLeading ==
    /\ batch_pc = "start"
    /\ batch_pc' = IF batch_us = <<>> THEN "returned" ELSE "loop"
    /\ UNCHANGED <<batch_us, all_stocks, stock_k, batch_results>>
    /\ UNCHANGED <<thVars, btVars, agVars, syVars, igVars, rpVars, clVars>>

\* line 168: yf.download raises; nothing catches it, the call is left
\* without a result
FetchRaises ==
    /\ batch_pc = "loop" /\ stock_k <= Len(all_stocks)
    /\ all_stocks[stock_k].kind = "raises"
    /\ batch_pc' = "raised"
    /\ batch_results' = <<>>
    /\ UNCHANGED <<batch_us, all_stocks, stock_k>>
    /\ UNCHANGED <<thVars, btVars, agVars, syVars, igVars, rpVars, clVars>>

\* lines 171-172: "if tw.empty or ...: continue"
FetchEmpty ==
    /\ batch_pc = "loop" /\ stock_k <= Len(all_stocks)
    /\ all_stocks[stock_k].kind = "empty"
    /\ stock_k' = stock_k + 1
    /\ UNCHANGED <<batch_pc, batch_us, all_stocks, batch_results>>
    /\ UNCHANGED <<thVars, btVars, agVars, syVars, igVars, rpVars, clVars>>

\* lines 174-219: the instrument is labelled and results[name] is stored
BacktestStock ==
    /\ batch_pc = "loop" /\ stock_k <= Len(all_stocks)
    /\ all_stocks[stock_k].kind = "ok"
    /\ batch_results' =
          Append(batch_results, BatchItem(batch_us, all_stocks[stock_k].tw, stock_k))
    /\ stock_k' = stock_k + 1
    /\ UNCHANGED <<batch_pc, batch_us, all_stocks>>
    /\ UNCHANGED <<thVars, btVars, agVars, syVars, igVars, rpVars, clVars>>

\* line 221: return results
ReturnResults ==
    /\ batch_pc = "loop" /\ stock_k > Len(all_stocks)
    /\ batch_pc' = "returned"
    /\ UNCHANGED <<batch_us, all_stocks, stock_k, batch_results>>
    /\ UNCHANGED <<thVars, btVars, agVars, syVars, igVars, rpVars, clVars>>

NextBatch ==
    \/ DownloadLeading
    \/ FetchRaises
    \/ FetchEmpty
    \/ BacktestStock
    \/ ReturnResults

SpecBatch == InitBatch /\ [][NextBatch]_vars

----------------------------------------------------------------------------
(* Properties of the batch (SpecBatch).                                     *)

BatchOver == batch_pc \in {"returned", "raised"} /\ batch_us # <<>>

Retrieved == {k \in 1..Len(all_stocks) : all_stocks[k].kind = "ok"}

\* C15: when the retrieval of an instrument fails (empty, or an exception),
\* the batch still ends by returning, its result leaves out the failed
\* instruments and holds the statistics of every other one.
C15_AsStated ==
    BatchOver =>
       /\ batch_pc = "returned"
       /\ Keys(batch_results) = Retrieved
       /\ \A k \in Retrieved :
             Lookup(batch_results, k) = BatchItem(batch_us, all_stocks[k].tw, k)

\* C15 for the failures the loop handles: with no raising download, the
\* result holds exactly the instruments whose download was usable
C15_EmptyIsolated ==
    (\A k \in 1..Len(all_stocks) : all_stocks[k].kind # "raises") => C15_AsStated

\* the aligned dates do not hold a prior date and one 3-day window after it
TooShort(t) == Len(t) < 3 + 1

InsufficientData ==
    {k \in 1..Len(all_stocks) :
        \/ all_stocks[k].kind = "empty"
        \/ all_stocks[k].kind = "ok" /\ TooShort(all_stocks[k].tw)}

\* C18: an instrument whose lagged series is empty, or whose aligned
\* calendar is too short for one holding window, has no entry in the
\* returned result and is in no list get_combined_recommendation derives
\* from it.
C18_AsStated ==
    batch_pc = "returned" =>
       \A k \in InsufficientData :
          /\ k \notin Keys(batch_results)
          /\ \A order \in Orderings(Keys(batch_results)) :
                \A j \in 1..4 :
                   ~InList(get_combined_recommendation(batch_results,
                                                       batch_results, order)[j], k)

----------------------------------------------------------------------------
(* daily_us_tw_email.get_us_report: the threshold pair and the status of    *)
(* the latest leading return.                                               *)

\* vol_series.iloc[-2]: undefined while the 20-day window is not full,
\* otherwise a standard deviation in percent
ReportVols == {NaN} \cup {Q(k, 10) : k \in 0..MaxVolK}

\* last["Close"], against prev["Close"] = 100
ReportCloses ==
    { Q(985, 10), Q(9875, 100), Q(989, 10), Q(99, 1), Q(100, 1),
      Q(1011, 10), Q(1015, 10) }

\* lines 59-86 for usable data; vol_prev (the raw vol_series.iloc[-2]) is
\* kept beside the fields of the returned dict
get_us_report(vol_prev, prev_close, last_close) ==
    LET vol_20d == IF ~IsNaN(vol_prev) THEN vol_prev ELSE Q(1, 1)
        th == get_dynamic_threshold(vol_20d, DefaultCalib)
        chg_pct == RMul(RSub(RDiv(last_close, prev_close), Q(1, 1)), Q(100, 1))
        is_crash == FLt(chg_pct, th[1])
        is_surge == FGt(chg_pct, th[2])
    IN [vol_prev |-> vol_prev,
        close |-> last_close,
        chg_pct |-> chg_pct,
        vol_20d |-> vol_20d,
        th_crash |-> th[1],
        th_surge |-> th[2],
        is_crash |-> is_crash,
        is_surge |-> is_surge,
        status |-> IF is_crash THEN "crash" ELSE IF is_surge THEN "surge" ELSE "flat"]

InitReport ==
    /\ IdleThreshold /\ IdleBacktest /\ IdleAggregator /\ IdleSynthesis
    /\ IdleIntegrated /\ IdleBatch /\ IdleCall
    /\ rp_pc = "ready"
    /\ us_report = <<>>

\* a call whose download gives at least 2 rows
GetUsReport ==
    /\ \E v \in ReportVols, c \in ReportCloses :
          us_report' = <<get_us_report(v, Q(100, 1), c)>>
    /\ rp_pc' = "done"
    /\ UNCHANGED <<thVars, btVars, agVars, syVars, igVars, baVars, clVars>>

\* a call whose download raises (except Exception) or gives fewer than 2
\* rows: return None
GetUsReportNone ==
    /\ us_report' = <<>>
    /\ rp_pc' = "done"
    /\ UNCHANGED <<thVars, btVars, agVars, syVars, igVars, baVars, clVars>>

NextReport == GetUsReport \/ GetUsReportNone

SpecReport == InitReport /\ [][NextReport]_vars

\* C16: whenever the rolling volatility of the date used is undefined, the
\* threshold pair used to classify the leading return is exactly
\* (-1.0, +1.0); here in the daily report get_us_report.
C16_AsStated ==
    (rp_pc = "done" /\ us_report # <<>> /\ IsNaN(us_report[1].vol_prev)) =>
       /\ us_report[1].th_crash = Q(-1, 1)
       /\ us_report[1].th_surge = Q(1, 1)

\* C16 in the backtest labelers (SpecBacktest): an outcome whose signal date
\* has an undefined volatility is labelled with the pair (-1.0, +1.0)
C16_LabelersUseDefault ==
    \A e \in Outcomes :
       IsNaN(LeadRow(e).vol_20d) =>
          e.regime = IF RLt(UsPct(LeadRow(e).us_ret), Q(-1, 1)) THEN "crash"
                     ELSE IF RLt(Q(1, 1), UsPct(LeadRow(e).us_ret)) THEN "surge"
                     ELSE "flat"

\* C17: with calibration constants that violate base_low < base_high or
\* vol_low < vol_high, get_dynamic_threshold returns no threshold pair (it
\* reports an error instead).
C17_AsStated == Called => ValidCalib(calib)

\* C20: for fixed input statistics get_combined_recommendation returns the
\* same four lists in the same element order, whatever the order in which
\* the set of common names is iterated.
C20_AsStated ==
    sy_pc = "combined" =>
       \A order \in Orderings(Keys(stats_3m) \cap Keys(stats_6m)) :
          combined = get_combined_recommendation(stats_3m, stats_6m, order)

\* the part of C20 that holds: crash_3m and surge_3m follow the order of the
\* items of stats_3m
C20_ThreeMonthListsFixed ==
    sy_pc = "combined" =>
       \A order \in Orderings(Keys(stats_3m) \cap Keys(stats_6m)) :
          LET out == get_combined_recommendation(stats_3m, stats_6m, order)
          IN combined[1] = out[1] /\ combined[2] = out[2]

----------------------------------------------------------------------------
(* Completeness of the labelling loop (SpecBacktest).                      *)

\* the outcomes emitted for entry index k
EmittedAt(k) == {j \in 1..Len(emitted) : emitted[j].i = k}
\* the prior aligned date of index k has a defined leading return
LeadDefined(k) == ~IsNaN(us_e[At(common, k - 1)].us_ret)

\* C21 as stated: once the loop is over, every index i with
\* 1 <= i <= N - hold_days - 1 whose prior aligned date has a defined
\* leading return has exactly one outcome, in the 3-day routine and in the
\* general routine.  (Fails for the general routine: index N - hold_days - 1
\* is outside range(1, len(common) - need_forward).)
C21_AsStated ==
    pc = "done" =>
        \A k \in 1..(N - hold_days - 1) :
            LeadDefined(k) => Cardinality(EmittedAt(k)) = 1


----------------------------------------------------------------------------
(* Missing prices in the batch backtest (SpecBatch).                       *)

\* a price field of bar b is missing
MissingField(b) == IsNaN(b.Open) \/ IsNaN(b.High) \/ IsNaN(b.Close)
\* a date of the exit window of (0-based) index k of series t has a missing field
WindowMissing(t, k) == \E d \in (k + 1)..(k + 3) : MissingField(t[d])
\* the indices of series t that the loop labels with leading series us
Labelled(us, t) == {k \in 1..(Len(t) - 3) : ~IsNaN(us[k].us_ret)}

\* C22 as stated: an index whose exit window has a missing Open, High or
\* Close yields no outcome (each instrument has as many outcomes as labelled
\* indices with complete windows), and every reported mean return is
\* defined.  (Fails: lines 189-193 never test the prices.)
C22_AsStated ==
    batch_pc = "returned" =>
        \A j \in 1..Len(batch_results) :
            LET e == batch_results[j]
                t == all_stocks[e.name].tw
                lists == label_by_days(batch_us, t, 1, [crash |-> <<>>, surge |-> <<>>, flat |-> <<>>])
            IN /\ Len(lists.crash) + Len(lists.surge) + Len(lists.flat)
                    = Cardinality({k \in Labelled(batch_us, t) : ~WindowMissing(t, k)})
               /\ ~IsNaN(e.crash_ret) /\ ~IsNaN(e.surge_ret)


----------------------------------------------------------------------------
(* dynamic_threshold.compute_volatility_regime (SpecVolatility).           *)

\* the integer square root of x >= 0, searched in lo..hi-1
RECURSIVE ISqrtIn(_, _, _)
ISqrtIn(x, lo, hi) ==
    IF hi - lo <= 1 THEN lo
    ELSE LET mid == (lo + hi) \div 2
         IN IF mid * mid <= x THEN ISqrtIn(x, mid, hi) ELSE ISqrtIn(x, lo, mid)
ISqrt(x) == ISqrtIn(x, 0, IF x + 1 < 46340 THEN x + 1 ELSE 46340)

\* the square root of a rational q >= 0, to two decimals (rounded down)
Sqrt(q) == IF IsNaN(q) THEN NaN ELSE Q(ISqrt((10000 * q[1]) \div q[2]), 100)

\* the sample variance (ddof = 1) of n values: undefined when n <= 1
Var(xs) ==
    LET n == Len(xs)
        m == RDiv(SumSeq(xs, 1), Q(n, 1))
        sq == [k \in 1..n |-> RMul(RSub(xs[k], m), RSub(xs[k], m))]
    IN IF n <= 1 THEN NaN ELSE RDiv(SumSeq(sq, 1), Q(n - 1, 1))

\* mutant of min_periods: one observation is enough
min_periods_One(window) == 1

\* rolling(window=window): min_periods defaults to the window
min_periods(window) == window

\* the defined values of series s at positions lo..hi, in order
RECURSIVE Observed(_, _, _)
Observed(s, lo, hi) ==
    IF lo > hi THEN <<>>
    ELSE IF IsNaN(s[lo]) THEN Observed(s, lo + 1, hi)
    ELSE <<s[lo]>> \o Observed(s, lo + 1, hi)

\* us_returns.rolling(window=window).std() * 100: at each date the standard
\* deviation, in percent, of the observations of the trailing window, NaN
\* when they are fewer than min_periods (std * 100 is taken as
\* sqrt(10^4 * var))
compute_volatility_regime(us_returns, window) ==
    [t \in 1..Len(us_returns) |->
        LET lo == IF t - window + 1 > 1 THEN t - window + 1 ELSE 1
            obs == Observed(us_returns, lo, t)
        IN IF Len(obs) < min_periods(window) THEN NaN
           ELSE Sqrt(RMul(Var(obs), Q(10000, 1)))]

MaxSeries == 4
MaxWindow == 3

\* daily returns, as fractions: undefined, -2 %, 0, +1 %
ReturnValues == {NaN, Q(-2, 100), Zero, Q(1, 100)}

InitVolatility ==
    /\ IdleThreshold /\ IdleBacktest /\ IdleAggregator /\ IdleSynthesis
    /\ IdleIntegrated /\ IdleBatch /\ IdleReport
    /\ call_pc = "ready"
    /\ \E n \in 0..MaxSeries, w \in 1..MaxWindow :
          call_args \in {[us_returns |-> s, window |-> w] : s \in [1..n -> ReturnValues]}
    /\ call_ret = <<>>

\* one call of compute_volatility_regime
ComputeVolatilityRegime ==
    /\ call_pc = "ready"
    /\ call_ret' = <<compute_volatility_regime(call_args.us_returns, call_args.window)>>
    /\ call_pc' = "returned"
    /\ UNCHANGED call_args
    /\ UNCHANGED <<thVars, btVars, agVars, syVars, igVars, baVars, rpVars>>

NextVolatility == ComputeVolatilityRegime

SpecVolatility == InitVolatility /\ [][NextVolatility]_vars

\* the trailing window of date t holds W defined returns
WindowFull(s, w, t) == t >= w /\ \A k \in (t - w + 1)..t : ~IsNaN(s[k])

----------------------------------------------------------------------------
(* The intersection lists against the 3-month lists (SpecSynth).           *)

\* C24 as stated: every name of crash_intersection is in crash_3m and every
\* name of surge_intersection is in surge_3m.  (Fails: a tie in the 6-month
\* run alone puts the name in both intersection lists.)
C24_AsStated ==
    sy_pc = "combined" =>
       /\ \A k \in 1..Len(combined[3]) : InList(combined[1], combined[3][k])
       /\ \A k \in 1..Len(combined[4]) : InList(combined[2], combined[4][k])


----------------------------------------------------------------------------
(* The general routine with hold_days = 3 against the 3-day routine        *)
(* (SpecBatch).                                                            *)

\* the labelling loop of lines 255-278 (_fetch_and_backtest_hold_days) with
\* horizon h over common = dates 1..Len(t), from index k (0-based) on
RECURSIVE label_hold_days(_, _, _, _, _)
label_hold_days(us, t, h, k, acc) ==
    IF ~(k < Len(t) - NeedForward(h)) THEN acc
    ELSE LET us_ret == us[k].us_ret
             vol == us[k].vol_20d
             th == get_dynamic_threshold(vol, DefaultCalib)
             buy == t[k + 1].Open
             high_hold == PyMax([j \in 1..h |-> t[k + j].High])
             close_last == t[k + h].Close
             ret_hold == ReturnPct(close_last, buy)
             out == [win |-> Won(high_hold, buy), ret |-> ret_hold]
             regime == Classify(UsPct(us_ret), th)
         IN IF IsNaN(us_ret) THEN label_hold_days(us, t, h, k + 1, acc)
            ELSE label_hold_days(us, t, h, k + 1, [acc EXCEPT ![regime] = Append(@, out)])

NoOutcomes == [crash |-> <<>>, surge |-> <<>>, flat |-> <<>>]

\* C25 as stated: for every instrument of the batch, the general routine
\* with hold_days = 3 gives the same outcomes under the same labels as the
\* 3-day routine, and so the same stored statistics.  (Fails: the general
\* loop ends two indices earlier.)
C25_AsStated ==
    batch_pc = "returned" =>
        \A j \in 1..Len(batch_results) :
            LET t == all_stocks[batch_results[j].name].tw
                lists3 == label_by_days(batch_us, t, 1, NoOutcomes)
                listsH == label_hold_days(batch_us, t, 3, 1, NoOutcomes)
            IN /\ listsH = lists3
               /\ batch_results[j] = StatsItem(batch_results[j].name, [crash |-> stats(listsH.crash), surge |-> stats(listsH.surge)])


----------------------------------------------------------------------------
(* The signal of the leading series: apply_dynamic_threshold, the label of *)
(* the backtest loops and get_us_report on one close series (SpecSignal).  *)

\* the rolling window, 20 in every caller
Window == 2
MaxLead == 4

\* us["Close"].pct_change(): undefined at the first date
pct_change(closes) ==
    [t \in 1..Len(closes) |->
        IF t = 1 THEN NaN ELSE RSub(RDiv(closes[t], closes[t - 1]), Q(1, 1))]

\* apply_dynamic_threshold(us_df, window, base_low, base_high) followed by
\* us_e["us_ret"] = us_e["Close"].pct_change(): the rows of us_e by date
apply_dynamic_threshold(closes, window) ==
    LET us_ret == pct_change(closes)
        vol == compute_volatility_regime(us_ret, window)
    IN [t \in 1..Len(closes) |->
          LET th == get_dynamic_threshold(vol[t], DefaultCalib)
          IN [Close |-> closes[t], us_ret |-> us_ret[t], vol_20d |-> vol[t],
              threshold_crash |-> th[1], threshold_surge |-> th[2]]]

\* mutant of SignalDate: the signal is read at the entry date itself
SignalDate_EntryDate(common_dates, k) == At(common_dates, k)

\* prev_d = common[i - 1]
SignalDate(common_dates, k) == At(common_dates, k - 1)

\* what the labelling loops derive for index k of the aligned dates: <<>>
\* when the return of prev_d is undefined (continue), else the threshold
\* pair and the label
signal(us_rows, common_dates, k) ==
    LET prev_d == SignalDate(common_dates, k)
        us_ret == us_rows[prev_d].us_ret
        th == get_dynamic_threshold(us_rows[prev_d].vol_20d, DefaultCalib)
    IN IF IsNaN(us_ret) THEN <<>>
       ELSE <<[th_c |-> th[1], th_s |-> th[2], regime |-> Classify(UsPct(us_ret), th)]>>

\* the signals of the indices 1 .. len(common) - 1
signals(closes, common_dates) ==
    LET us_rows == apply_dynamic_threshold(closes, Window)
    IN [k \in 1..(Len(common_dates) - 1) |-> signal(us_rows, common_dates, k)]

\* get_us_report on the downloaded closes: None (<<>>) for fewer than 2 rows
get_us_report_data(data) ==
    IF Len(data) < 2 THEN <<>>
    ELSE LET ret == pct_change(data)
             vol_series == compute_volatility_regime(ret, Window)
             n == Len(data)
         IN <<get_us_report(vol_series[n - 1], data[n - 1], data[n])>>

\* day-to-day moves of the leading close: -1.25 %, none, +3 %
CloseMoves == {Q(79, 80), Q(1, 1), Q(103, 100)}

\* the close series of n dates that starts at 100 and moves as mv says
RECURSIVE ClosesFrom(_, _, _)
ClosesFrom(c, mv, k) ==
    IF k > Len(mv) THEN <<c>> ELSE <<c>> \o ClosesFrom(RMul(c, mv[k]), mv, k + 1)
LeadCloses(n) ==
    IF n = 0 THEN {<<>>} ELSE {ClosesFrom(Q(100, 1), mv, 1) : mv \in [1..(n - 1) -> CloseMoves]}
\* the same for a second leading series, one that moves every day
AltCloses(n) ==
    IF n = 0 THEN {<<>>} ELSE {ClosesFrom(Q(100, 1), mv, 1) : mv \in [1..(n - 1) -> CloseMoves \ {Q(1, 1)}]}

\* the ascending list of the dates of S
RECURSIVE SortedDates(_)
SortedDates(S) ==
    IF S = {} THEN <<>>
    ELSE LET m == CHOOSE x \in S : \A y \in S : x <= y IN <<m>> \o SortedDates(S \ {m})

\* the dates the lagged instrument shares with the leading series: all of
\* them, or all but the second
CommonDates(n) == {SortedDates((1..n) \ {k}) : k \in {0, 2}}

InitSignal ==
    /\ IdleThreshold /\ IdleBacktest /\ IdleAggregator /\ IdleSynthesis
    /\ IdleIntegrated /\ IdleBatch /\ IdleReport
    /\ call_pc = "ready"
    /\ \E n \in 0..MaxLead :
          call_args \in [us : LeadCloses(n), alt : AltCloses(n), common : CommonDates(n)]
    /\ call_ret = <<>>

\* the labelling loop's signals on the leading series us and, with the same
\* aligned dates, on the leading series alt
LabelSignals ==
    /\ call_pc = "ready"
    /\ call_ret' = <<[us |-> signals(call_args.us, call_args.common),
                     alt |-> signals(call_args.alt, call_args.common)]>>
    /\ call_pc' = "labelled"
    /\ UNCHANGED call_args
    /\ UNCHANGED <<thVars, btVars, agVars, syVars, igVars, baVars, rpVars>>

\* the daily report on the leading series us
GetUsReportData ==
    /\ call_pc = "ready"
    /\ call_ret' = get_us_report_data(call_args.us)
    /\ call_pc' = "reported"
    /\ UNCHANGED call_args
    /\ UNCHANGED <<thVars, btVars, agVars, syVars, igVars, baVars, rpVars>>

NextSignal == LabelSignals \/ GetUsReportData

SpecSignal == InitSignal /\ [][NextSignal]_vars

\* the signal the labelling loop derives from the latest return of series
\* data, i.e. when the last date is the prior aligned date
LatestSignal(data) ==
    LET n == Len(data) IN signal(apply_dynamic_threshold(data, Window), <<n, n + 1>>, 1)

\* C26 as stated: the report labels the latest daily return as the backtest
\* labeler labels it, with the same threshold pair.  (Fails: the report
\* takes the volatility of the date before the return, and 1.0 for an
\* undefined one.)
C26_AsStated ==
    (call_pc = "reported" /\ call_ret # <<>>) =>
        LET s == LatestSignal(call_args.us)[1]
        IN /\ call_ret[1].status = s.regime
           /\ call_ret[1].th_crash = s.th_c
           /\ call_ret[1].th_surge = s.th_s


\* the leading series us and alt have the same closes on every date before d
AgreeBefore(d) == \A t \in 1..(d - 1) : call_args.us[t] = call_args.alt[t]

\* C27: no look-ahead in the signal.  For every index k of the aligned dates
\* with entry date d = common[k], two leading series that agree on every
\* close dated before d get the same result for k from the labelling loop:
\* both skip it, or both derive the same threshold pair and the same label,
\* whatever their closes on or after d.  (The lagged prices are not read by
\* the signal; they only decide the aligned dates.)
C27_NoLookAhead ==
    call_pc = "labelled" =>
        \A k \in 1..(Len(call_args.common) - 1) :
            AgreeBefore(At(call_args.common, k)) =>
                call_ret[1].us[k] = call_ret[1].alt[k]

\* C27 witness: four dates, all aligned; the two series part at date 3 (one
\* stays, one falls 1.25 %) and differ on date 4 too, and index 2 (entry
\* date 3) is a surge under the pair of date 2 for both
C27_Witness ==
    /\ call_pc = "labelled"
    /\ call_args.common = <<1, 2, 3, 4>>
    /\ call_args.us[2] = Q(103, 1) /\ call_args.alt[2] = Q(103, 1)
    /\ call_args.us[3] # call_args.alt[3] /\ call_args.us[4] # call_args.alt[4]
    /\ call_ret[1].us[2] # <<>> /\ call_ret[1].us[2][1].regime = "surge"
    /\ call_ret[1].alt[2] = call_ret[1].us[2]
    /\ call_ret[1].alt[3] # call_ret[1].us[3]


----------------------------------------------------------------------------
(* Positions read by the labelling loop (SpecBacktest).                    *)

\* the loop body is about to run for index i
Processing == pc = "loop" /\ i < LoopEnd
\* k is a position of the aligned date list (0-based)
ValidPosition(k) == 0 <= k /\ k <= N - 1

\* C28: for every aligned length N >= 0 and every index i the loop body
\* runs for, the prior index i - 1 and the exit-window indices
\* i .. i + hold_days - 1 are positions of the aligned date list; the same
\* holds for the index of every outcome emitted.
C28_IndicesInRange ==
    /\ Processing =>
          /\ ValidPosition(i - 1)
          /\ \A j \in 0..(hold_days - 1) : ValidPosition(i + j)
    /\ \A e \in Outcomes :
          ValidPosition(e.i - 1) /\ ValidPosition(e.i + hold_days - 1)

\* C28 witness: the 3-day routine on 5 aligned dates has labelled index 2,
\* whose exit window ends at the last position, and leaves the loop at 3
C28_Witness ==
    /\ routine = "by_days" /\ N = 5 /\ pc = "loop" /\ i = 3
    /\ Len(emitted) = 2 /\ emitted[2].i = 2
    /\ ~Processing


----------------------------------------------------------------------------
(* The best strategy of one instrument (SpecBest).                         *)

\* the statistics of one regime: no sample, or 2, 3 or 4 samples with a win
\* rate and a mean return, the mean undefined when a return of the list is
BestStats ==
    {Stat(0, Zero, Zero)}
    \cup {Stat(n, wr, ret) : n \in {2, 3, 4}, wr \in {Q(50, 1), Q(100, 1)},
                             ret \in {NaN, Q(2, 1), Q(25, 10)}}

InitBest ==
    /\ IdleThreshold /\ IdleBacktest /\ IdleAggregator /\ IdleSynthesis
    /\ IdleIntegrated /\ IdleBatch /\ IdleReport
    /\ call_pc = "ready"
    /\ call_args \in [crash : BestStats, surge : BestStats]
    /\ call_ret = <<>>

\* the tail of one call of backtest_single_stock / backtest_single_stock_10d
BacktestSingleStock ==
    /\ call_pc = "ready"
    /\ call_ret' = backtest_single_stock(1, call_args.crash, call_args.surge)
    /\ call_pc' = "returned"
    /\ UNCHANGED call_args
    /\ UNCHANGED <<thVars, btVars, agVars, syVars, igVars, baVars, rpVars>>

NextBest == BacktestSingleStock

SpecBest == InitBest /\ [][NextBest]_vars

\* the statistics of the regime named by best_strategy
BestRegime(r) ==
    IF r.best_strategy = "crash" THEN Stat(r.crash_n, r.crash_wr, r.crash_ret)
    ELSE Stat(r.surge_n, r.surge_wr, r.surge_ret)

\* C29 as stated: a returned result names a regime with at least 3 samples,
\* best_wr and best_ret are that regime's win rate and mean return, with
\* both regimes at 3 samples or more the regime is crash iff crash_ret >
\* surge_ret, and nothing is returned when neither regime has 3 samples.
\* (Fails when a mean return is undefined: best_ret is max(crash_ret,
\* surge_ret), not the mean of the regime named.)
C29_AsStated ==
    call_pc = "returned" =>
       /\ (call_args.crash.n < 3 /\ call_args.surge.n < 3) <=> call_ret = <<>>
       /\ call_ret # <<>> =>
             LET r == call_ret[1]
             IN /\ r.best_strategy \in {"crash", "surge"}
                /\ BestRegime(r).n >= 3
                /\ r.best_wr = BestRegime(r).wr
                /\ r.best_ret = BestRegime(r).ret
                /\ (r.crash_n >= 3 /\ r.surge_n >= 3) =>
                      (r.best_strategy = "crash" <=> FGt(r.crash_ret, r.surge_ret))

\* the same for calls whose mean returns are both defined
C29_DefinedReturns ==
    (~IsNaN(call_args.crash.ret) /\ ~IsNaN(call_args.surge.ret)) => C29_AsStated


----------------------------------------------------------------------------
(* strategy_buy_tomorrow_probability.py (SpecBuyTomorrow).                 *)

\* len(US_STOCKS)
NumTickers == 5

\* what the download of one US ticker gives: an exception (swallowed), a
\* frame that is empty or has a single row, or the change in percent of the
\* last close against the one before
TickerData == {[kind |-> "raises"], [kind |-> "unusable"],
               [kind |-> "ok", chg_pct |-> Q(-1, 1)], [kind |-> "ok", chg_pct |-> Q(3, 2)]}

\* details: the chg_pct of the tickers with usable data, in US_STOCKS order
RECURSIVE Details(_, _)
Details(tickers, k) ==
    IF k > Len(tickers) THEN <<>>
    ELSE (IF tickers[k].kind = "ok" THEN <<tickers[k].chg_pct>> ELSE <<>>) \o Details(tickers, k + 1)

\* (df["chg_pct"] > 0).sum() and (df["chg_pct"] < 0).sum()
UpCount(seq) == Cardinality({k \in 1..Len(seq) : FGt(seq[k], Zero)})
DownCount(seq) == Cardinality({k \in 1..Len(seq) : FLt(seq[k], Zero)})

\* get_us_today_performance: with no usable ticker "details" is the list [],
\* else the DataFrame df
get_us_today_performance(tickers) ==
    LET details == Details(tickers, 1)
    IN IF details = <<>>
       THEN [up_count |-> 0, down_count |-> 0, avg_chg_pct |-> Zero,
             details |-> [type |-> "list", rows |-> <<>>]]
       ELSE [up_count |-> UpCount(details),
             down_count |-> DownCount(details),
             avg_chg_pct |-> RDiv(SumSeq(details, 1), Q(Len(details), 1)),
             details |-> [type |-> "DataFrame", rows |-> details]]

\* np.clip(x, lo, hi)
Clip(x, lo, hi) == IF RLt(x, lo) THEN lo ELSE IF RLt(hi, x) THEN hi ELSE x

\* calc_buy_tomorrow_probability
calc_buy_tomorrow_probability(us_perf) ==
    LET up == us_perf.up_count
        total == up + us_perf.down_count
        up_ratio == Q(up, total)
        base == RSub(RAdd(Q(1, 2), RMul(Q(15, 100), up_ratio)),
                     RMul(Q(15, 100), RSub(Q(1, 1), up_ratio)))
        adj == Clip(RDiv(us_perf.avg_chg_pct, Q(3, 1)), Q(-1, 10), Q(1, 10))
    IN IF total = 0 THEN Q(1, 2) ELSE Clip(RAdd(base, adj), Q(1, 10), Q(9, 10))

\* run(): how it ends, whether the "data unavailable" line was printed, and
\* the probability printed (<<>> when none); a list has no attribute
\* "empty", so us["details"].empty raises AttributeError on the list []
run(tickers) ==
    LET us == get_us_today_performance(tickers)
    IN IF us.details.type = "list"
       THEN [ends |-> "raised", unavailable |-> FALSE, prob |-> <<>>]
       ELSE IF us.details.rows = <<>>
       THEN [ends |-> "returned", unavailable |-> TRUE, prob |-> <<>>]
       ELSE [ends |-> "returned", unavailable |-> FALSE,
             prob |-> <<calc_buy_tomorrow_probability(us)>>]

InitBuyTomorrow ==
    /\ IdleThreshold /\ IdleBacktest /\ IdleAggregator /\ IdleSynthesis
    /\ IdleIntegrated /\ IdleBatch /\ IdleReport
    /\ call_pc = "ready"
    /\ call_args \in [1..NumTickers -> TickerData]
    /\ call_ret = <<>>

\* one call of run()
Run ==
    /\ call_pc = "ready"
    /\ call_ret' = <<run(call_args)>>
    /\ call_pc' = run(call_args).ends
    /\ UNCHANGED call_args
    /\ UNCHANGED <<thVars, btVars, agVars, syVars, igVars, baVars, rpVars>>

NextBuyTomorrow == Run

SpecBuyTomorrow == InitBuyTomorrow /\ [][NextBuyTomorrow]_vars

\* no US ticker yields usable data
NoUsableTicker == \A k \in 1..Len(call_args) : call_args[k].kind # "ok"

\* C30 as stated: when no US ticker yields usable data, run() prints that
\* the data is unavailable and returns without a probability; no exception
\* escapes.  (Fails: the no-data result holds a list, and run() asks it for
\* .empty.)
C30_AsStated ==
    (call_pc # "ready" /\ NoUsableTicker) =>
        /\ call_pc = "returned"
        /\ call_ret[1].unavailable
        /\ call_ret[1].prob = <<>>

============================================================================
